---- MODULE Spec2Model ----
(***************************************************************************)
(* Payment service adapter layer of modules/s3/s3payments.py together with *)
(* the link-table hooks of modules/s3db/fin.py.                            *)
(*                                                                         *)
(* Every adapter method is a set-valued operator: it maps the state before *)
(* the call to the set of outcomes [s, ret, exc] the call can have, one    *)
(* for every answer the payment provider can give to each request that the *)
(* call sends.  An action applies one method and takes one outcome.        *)
(* A Python exception that leaves a method is an outcome with exc # "":    *)
(* the state is the one reached when the exception was raised (the adapter *)
(* has no handler of its own).                                             *)
(***************************************************************************)
EXTENDS Integers, Sequences, FiniteSets, TLC

VARIABLES
    now,              \* current.request.utcnow, the time of the running request
    service,          \* the fin_payment_service row (persisted configuration)
    adapter,          \* the long-lived adapter instance (in-memory attributes)
    product_service,  \* fin_product_service rows, row id = index
    plan_service,     \* fin_subscription_plan_service rows, row id = index
    subscription,     \* fin_subscription rows (set of records with id)
    next_id,          \* next auto-increment id of fin_subscription
    log,              \* fin_payment_log rows, in insertion order
    plan_status,      \* fin_subscription_plan.status, by plan id
    procs,            \* concurrent requests: position and local values of each
    last              \* the adapter call made by the last step, and its result

vars == <<now, service, adapter, product_service, plan_service,
          subscription, next_id, log, plan_status, procs, last>>

----------------------------------------------------------------------------
(* Bounds of the model *)

MaxTime == 2
MaxLog == 3
MaxLinks == 2
MaxSubs == 2
MaxCheckLog == 5

----------------------------------------------------------------------------
(* Python values *)

\* None of a string-valued attribute
None == "None"
\* None of token_expiry_date
NoExpiry == -1
\* None of the HTTP status (status codes are kept as strings)
NoStatus == None
\* None of a record id
NoId == 0
\* None as a decoded response body (a dict is a function on its keys)
NoneBody == [isNone |-> TRUE]

Falsy(x) == x \in {None, ""}
Truthy(x) == ~Falsy(x)

IsDict(b) == "isNone" \notin DOMAIN b
\* truth value of a decoded body: None and {} are false
BodyTruthy(b) == IsDict(b) /\ DOMAIN b # {}

----------------------------------------------------------------------------
(* Records the adapter only reads *)

SERVICE_ID == "s1"

\* fin_product: product 1 exists and belongs to an organisation
fin_product == [p \in {1} |-> [name |-> "Product", organisation |-> "ACME"]]
\* product ids a caller can pass: an existing one and a missing one
ProductArgs == {1, 9}

\* fin_subscription_plan: plan 1 is ACTIVE and fixed-term, plan 2 is
\* INACTIVE, plan 3 is ACTIVE and open-ended with a stored number of cycles
fin_subscription_plan ==
    [p \in {1, 2, 3} |->
        [product_id |-> 1,
         status |-> IF p = 2 THEN "INACTIVE" ELSE "ACTIVE",
         fixed |-> (p = 1),
         total_cycles |-> IF p = 3 THEN 6 ELSE 12]]
PlanArgs == {1, 2, 9}
\* every plan, and a missing one
AllPlans == {1, 2, 3, 9}

\* pr_pentity with instance records and contacts: 1 is a person with an
\* email address, 2 an organisation with one, 3 a person without last name
\* and without email address, 4 a group
pr_pentity ==
    [e \in {1, 2, 3, 4} |->
        CASE e = 1 -> [instance_type |-> "pr_person",
                       first_name |-> "Jane", last_name |-> "Doe",
                       email |-> "jane@example.org"]
          [] e = 2 -> [instance_type |-> "org_organisation",
                       name |-> "ACME", email |-> "office@example.org"]
          [] e = 3 -> [instance_type |-> "pr_person",
                       first_name |-> "Joe", last_name |-> None]
          [] e = 4 -> [instance_type |-> "pr_group", name |-> "Team"]]
SubscriberArgs == {1, 9}
\* every entity, and a missing one
AllSubscribers == {1, 2, 3, 4, 9}

----------------------------------------------------------------------------
(* Answers of the payment provider *)

TOKEN_PATH == "/v1/oauth2/token"
USERINFO_PATH == "/v1/identity/oauth2/userinfo"
PRODUCTS_PATH == "/v1/catalogs/products"
PLANS_PATH == "/v1/billing/plans"
SUBSCRIPTIONS_PATH == "/v1/billing/subscriptions"

\* URLError with its reason, HTTPError with its status code and the body of
\* the response (either can be empty)
URLError(reason) == [class |-> "URLError", reason |-> reason]
NetError == URLError("unreachable")
HttpError(code, body) == [class |-> "HTTPError", code |-> code, body |-> body]
BadJson == [class |-> "JSONERROR", code |-> "200"]
\* any other exception of opener.open
OtherError == [class |-> "Exception"]
Ok(body) == [class |-> "OK", code |-> "200", body |-> body]

Failures == {NetError, HttpError("422", "UNPROCESSABLE"), HttpError("422", ""),
             BadJson}

\* bodies of a successful answer to the token request
TokenBodies ==
    {<<>>, [token_type |-> "MAC"], [access_token |-> "t1"],
     [access_token |-> "t1", expires_in |-> 0],
     [access_token |-> "t1", expires_in |-> 1],
     [access_token |-> "t2", expires_in |-> 2, token_type |-> "MAC"]}

ApproveLink == [rel |-> "approve", href |-> "https://provider/approve"]
SelfLink == [rel |-> "self", href |-> "https://provider/self"]

\* status_path = "/v1/billing/subscriptions/%s" % row.refno
StatusPath(refno) == SUBSCRIPTIONS_PATH \o "/" \o refno
\* the reference numbers a subscription record can hold
Refnos == {"SUB-1", None}
StatusPaths == {StatusPath(refno) : refno \in Refnos}

\* answers to the status request: failures, 404 with and without a body,
\* another error status, a body with a status, without one, with an empty one
StatusAnswers ==
    {NetError, URLError(""), OtherError, BadJson,
     HttpError("404", "RESOURCE_NOT_FOUND"), HttpError("404", ""),
     HttpError("500", "INTERNAL_SERVER_ERROR"), HttpError("500", ""),
     Ok([status |-> "ACTIVE"]), Ok([id |-> "SUB-1"]), Ok([status |-> ""])}

Paths == {TOKEN_PATH, USERINFO_PATH, PRODUCTS_PATH, PLANS_PATH,
          SUBSCRIPTIONS_PATH} \cup StatusPaths

\* the answers the provider can give to a request, by path; the answers to
\* the token request are a parameter
Provider(token_answers) ==
    [path \in Paths |->
        CASE path = TOKEN_PATH -> token_answers
          [] path \in StatusPaths -> StatusAnswers
          [] path = USERINFO_PATH -> Failures \cup {Ok([user_id |-> "u"])}
          [] path = PRODUCTS_PATH ->
                {NetError,
                 Ok([id |-> "PROD-1"]), Ok([id |-> ""]), Ok([name |-> "Product"])}
          [] path = PLANS_PATH ->
                {HttpError("422", "UNPROCESSABLE"), HttpError("422", ""),
                 Ok([id |-> "PLAN-1"]), Ok([id |-> ""]), Ok([name |-> "Plan"])}
          [] path = SUBSCRIPTIONS_PATH ->
                Failures \cup
                {Ok([id |-> "SUB-1", links |-> <<SelfLink, ApproveLink>>]),
                 Ok([id |-> "", links |-> <<ApproveLink>>]),
                 Ok([links |-> <<ApproveLink>>]),
                 Ok([id |-> "SUB-1", links |-> <<SelfLink>>])}]

\* every kind of answer to the token request
AnyToken == Provider(Failures \cup {Ok(b) : b \in TokenBodies})
\* the token request fails, or returns a token with or without a lifetime
FewTokens == Provider({NetError, Ok([access_token |-> "t2"]),
                       Ok([access_token |-> "t1", expires_in |-> 1])})
\* the token request returns a token that lasts
SomeToken == Provider({Ok([access_token |-> "t1", expires_in |-> 1])})
\* the registrations succeed; the userinfo request succeeds or fails; the
\* subscription request succeeds, fails, or is answered without an id
Registering ==
    [SomeToken EXCEPT
        ![USERINFO_PATH] = {NetError, Ok([user_id |-> "u"])},
        ![PRODUCTS_PATH] = {Ok([id |-> "PROD-1"])},
        ![PLANS_PATH] = {Ok([id |-> "PLAN-1"])},
        ![SUBSCRIPTIONS_PATH] =
            {NetError,
             Ok([id |-> "SUB-1", links |-> <<SelfLink, ApproveLink>>]),
             Ok([links |-> <<ApproveLink>>])}]

----------------------------------------------------------------------------
(* The state a method works on, and its outcomes *)

State(provider) ==
    [provider |-> provider, now |-> now, service |-> service, adapter |-> adapter,
     product_service |-> product_service, plan_service |-> plan_service,
     subscription |-> subscription, next_id |-> next_id, log |-> log,
     plan_status |-> plan_status, cls |-> "PayPalAdapter", trace |-> << >>,
     diag |-> << >>]

Return(S, v) == [s |-> S, ret |-> v, exc |-> ""]
Raise(S, v, e) == [s |-> S, ret |-> v, exc |-> e]

----------------------------------------------------------------------------
(* S3PaymentLog *)

\* (variant: the new entry takes the place of the last one)
LogWrite_over(S, action, result, reason) ==
    LET entry == [date |-> S.now, service_id |-> S.adapter.service_id,
                  action |-> action, result |-> result, reason |-> reason]
    IN  IF S.log = << >> THEN [S EXCEPT !.log = <<entry>>]
        ELSE [S EXCEPT !.log[Len(S.log)] = entry]

\* (variant: warnings are reported to the system log as well)
Diagnosed_warning == {"WARNING", "ERROR", "FATAL"}

\* results that are also written to the system log (current.log.error)
Diagnosed == {"ERROR", "FATAL"}

\* the message handed to current.log.error
Diagnostic(S, action, reason) ==
    [service_id |-> S.adapter.service_id, action |-> action, reason |-> reason]

LogWrite(S, action, result, reason) ==
    IF action = << >> \/ result = ""
    THEN S
    ELSE [S EXCEPT !.log = Append(@, [date |-> S.now,
                                      service_id |-> S.adapter.service_id,
                                      action |-> action,
                                      result |-> result,
                                      reason |-> reason]),
                   !.diag = IF result \in Diagnosed
                            THEN Append(@, Diagnostic(S, action, reason))
                            ELSE @]

LogInfo(S, action, reason) == LogWrite(S, action, "INFO", reason)
LogSuccess(S, action) == LogWrite(S, action, "SUCCESS", << >>)
LogWarning(S, action, reason) == LogWrite(S, action, "WARNING", reason)
LogError(S, action, reason) == LogWrite(S, action, "ERROR", reason)
LogFatal(S, action, reason) == LogWrite(S, action, "FATAL", reason)

\* reason = ("%s %s" % (status, error)) if status else error
Reason(status, error) ==
    IF Truthy(status) THEN <<status, error>> ELSE <<error>>

----------------------------------------------------------------------------
(* S3PaymentService: constructor, transport *)

S3PaymentService_init(row) ==
    [service_id |-> row.id,
     base_url |-> row.base_url,
     use_proxy |-> row.use_proxy,
     proxy |-> row.proxy,
     username |-> row.username,
     password |-> row.password,
     token_type |-> row.token_type,
     access_token |-> row.access_token,
     token_expiry_date |-> row.token_expiry_date]

NoHeader == << >>

\* (variant: a body that cannot be decoded is returned as no payload and
\* no error)
classify_lenient(r) ==
    CASE r.class = "HTTPError" ->
             [output |-> NoneBody, status |-> r.code, error |-> r.body]
      [] r.class = "URLError" ->
             [output |-> NoneBody, status |-> NoStatus,
              error |-> IF Falsy(r.reason) THEN "Unknown network error"
                        ELSE r.reason]
      [] r.class = "Exception" ->
             [output |-> NoneBody, status |-> NoStatus, error |-> "Exception"]
      [] r.class = "JSONERROR" ->
             [output |-> NoneBody, status |-> r.code, error |-> None]
      [] OTHER ->
             [output |-> r.body, status |-> r.code, error |-> None]

\* the triple (output, status, error) http returns for an answer
classify(r) ==
    CASE r.class = "HTTPError" ->
             \* status = e.code; error = s3_str(e.read())
             [output |-> NoneBody, status |-> r.code, error |-> r.body]
      [] r.class = "URLError" ->
             \* error = e.reason or "Unknown network error"
             [output |-> NoneBody, status |-> NoStatus,
              error |-> IF Falsy(r.reason) THEN "Unknown network error"
                        ELSE r.reason]
      [] r.class = "Exception" ->
             [output |-> NoneBody, status |-> NoStatus, error |-> "Exception"]
      [] r.class = "JSONERROR" ->
             \* status = f.code; error is the exception json.load raised
             [output |-> NoneBody, status |-> r.code, error |-> "JSONDecodeError"]
      [] OTHER ->
             [output |-> r.body, status |-> r.code, error |-> None]

\* opener.open and the classification of its result (payload, status, error)
\* the request, its answer r and the triple returned are appended to the
\* trace of the call
open(S, method, path, data, o) ==
    LET sent(r) == [S EXCEPT !.trace = Append(@, [ev |-> "request",
                                                  method |-> method,
                                                  path |-> path,
                                                  data |-> data,
                                                  auth |-> o.auth,
                                                  stored |-> o.stored,
                                                  authorization |-> o.header,
                                                  handler401 |-> o.handler,
                                                  answer |-> r,
                                                  result |-> classify(r)])]
    IN  { [s |-> sent(r), output |-> classify(r).output,
           status |-> classify(r).status, error |-> classify(r).error]
          : r \in S.provider[path] }

RECURSIVE http(_, _, _, _, _)
RECURSIVE get_access_token(_)

\* (variant: a token that expires right now still counts as usable)
token_unusable_late(token, expiry_date, utcnow) ==
    Falsy(token) \/ (expiry_date # NoExpiry /\ expiry_date < utcnow)

\* not token or expiry_date and expiry_date <= now: a new token is needed
token_unusable(token, expiry_date, utcnow) ==
    Falsy(token) \/ (expiry_date # NoExpiry /\ expiry_date <= utcnow)

\* S3PaymentService.get_access_token, which the adapters override
S3PaymentService_get_access_token(S) ==
    {Raise(S, None, "NotImplementedError")}

\* self.get_access_token() of an instance of class S.cls
self_get_access_token(S) ==
    IF S.cls = "PayPalAdapter" THEN get_access_token(S)
    ELSE S3PaymentService_get_access_token(S)

\* (variant: the 401 handler is added whenever there are credentials)
handler401_always(auth, username, password) ==
    Truthy(username) /\ Truthy(password)

\* if auth and username and password: add a HTTP-401-handler; auth False
\* is the empty string here, any other value is true
handler401(auth, username, password) ==
    auth # "" /\ Truthy(username) /\ Truthy(password)

\* the Authorization header and the 401 handler of the opener; stored is
\* the token and expiry the opener read, a call of get_access_token is an
\* event of the trace
http_opener(S, auth) ==
    LET username == S.adapter.username
        password == S.adapter.password
        handler == handler401(auth, username, password)
    IN  IF auth = "Basic" THEN
            {[s |-> S, auth |-> auth, stored |-> << >>,
              header |-> IF Truthy(username) /\ Truthy(password)
                         THEN <<"Basic", username, password>> ELSE NoHeader,
              handler |-> handler]}
        ELSE IF auth = "Token" THEN
            LET token == S.adapter.access_token
                token_type == IF Truthy(S.adapter.token_type)
                              THEN S.adapter.token_type ELSE "Bearer"
                expiry_date == S.adapter.token_expiry_date
                stored == [access_token |-> token,
                           token_expiry_date |-> expiry_date]
                S1 == [S EXCEPT !.trace = Append(@, [ev |-> "get_access_token"])]
            IN  IF token_unusable(token, expiry_date, S.now)
                THEN {[s |-> g.s, auth |-> auth, stored |-> stored,
                       header |-> IF Truthy(g.ret) THEN <<token_type, g.ret>>
                                  ELSE NoHeader,
                       handler |-> handler] : g \in self_get_access_token(S1)}
                ELSE {[s |-> S, auth |-> auth, stored |-> stored,
                       header |-> <<token_type, token>>,
                       handler |-> handler]}
        ELSE {[s |-> S, auth |-> auth, stored |-> << >>, header |-> NoHeader,
               handler |-> handler]}

\* (variant: the request is sent whatever the base URL)
http_anyway(S, method, path, data, auth) ==
    UNION { open(o.s, method, path, data, o) : o \in http_opener(S, auth) }

http(S, method, path, data, auth) ==
    IF Falsy(S.adapter.base_url)
    THEN {[s |-> [S EXCEPT !.trace = Append(@, [ev |-> "no_base_url",
                      result |-> [output |-> NoneBody, status |-> NoStatus,
                                  error |-> "No base URL set"]])],
           output |-> NoneBody, status |-> NoStatus,
           error |-> "No base URL set"]}
    ELSE UNION { open(o.s, method, path, data, o)
                 : o \in http_opener(S, auth) }

----------------------------------------------------------------------------
(* PayPalAdapter.get_access_token *)

\* ttl = credentials.get("expires_in"); expiry is now + ttl if ttl is true
token_expiry(now0, credentials) ==
    LET has_ttl == "expires_in" \in DOMAIN credentials
    IN  IF has_ttl /\ credentials["expires_in"] # 0
        THEN now0 + credentials["expires_in"]
        ELSE NoExpiry

\* (variant: the new token is kept in memory and not written to the row)
store_token_unsaved(S, now0, credentials) ==
    [S EXCEPT !.adapter.token_type = IF "token_type" \in DOMAIN credentials
                                     THEN credentials["token_type"] ELSE "Bearer",
              !.adapter.access_token = credentials["access_token"],
              !.adapter.token_expiry_date = token_expiry(now0, credentials)]

\* the update of the service row and of the instance attributes
store_token(S, now0, credentials) ==
    LET access_token == credentials["access_token"]
        token_expiry_date == token_expiry(now0, credentials)
        token_type == IF "token_type" \in DOMAIN credentials
                      THEN credentials["token_type"] ELSE "Bearer"
        S1 == [S EXCEPT !.service.token_type = token_type,
                        !.service.access_token = access_token,
                        !.service.token_expiry_date = token_expiry_date]
    IN  [S1 EXCEPT !.adapter.token_type = token_type,
                   !.adapter.access_token = access_token,
                   !.adapter.token_expiry_date = token_expiry_date]

\* (variant: a failed fetch forgets the token the instance holds)
no_token_reset(S, action, reason) ==
    Return(LogError([S EXCEPT !.adapter.access_token = None], action, reason),
           None)

\* the failure exits of get_access_token: log the error, return None
no_token(S, action, reason) ==
    Return(LogError(S, action, reason), None)

get_access_token(S) ==
    LET action == <<"Get Access Token">>
        username == S.adapter.username
        password == S.adapter.password
        \* now is read before the request is sent
        now0 == S.now
    IN  IF Truthy(username) /\ Truthy(password) THEN
            { IF Truthy(r.error) THEN
                  no_token(r.s, action, <<r.error>>)
              ELSE IF BodyTruthy(r.output) THEN
                  IF "access_token" \notin DOMAIN r.output
                  THEN no_token(r.s, action, <<"No access token received">>)
                  ELSE LET S1 == store_token(r.s, now0, r.output)
                       IN  Return(LogSuccess(S1, action), S1.adapter.access_token)
              ELSE no_token(r.s, action, <<"No credentials received">>)
              : r \in http(S, "POST", TOKEN_PATH,
                            [grant_type |-> "client_credentials"], "Basic") }
        ELSE {no_token(S, action,
                       <<"Lacking client ID/secret to fetch access token">>)}

----------------------------------------------------------------------------
(* PayPalAdapter.get_user_info *)

get_user_info(S) ==
    LET action == <<"Get User Info">>
    IN  \* returns None on error, else the userinfo as http has decoded it
        { IF Truthy(r.error)
          THEN Return(LogError(r.s, action, <<r.error>>), NoneBody)
          ELSE Return(LogSuccess(r.s, action), r.output)
          : r \in http(S, "GET", USERINFO_PATH, << >>, "Token") }

----------------------------------------------------------------------------
(* Link tables: select(limitby=(0,1)).first() and update_or_insert *)

Min(xs) == CHOOSE x \in xs : \A y \in xs : x <= y

\* ids of the rows of a table that satisfy a query
Select(table, query(_)) == {i \in DOMAIN table : query(table[i])}

\* Table.update_or_insert: update the first row matching the key, or insert
update_or_insert(table, key(_), values) ==
    LET found == Select(table, key)
    IN  IF found # {}
        THEN [table EXCEPT ![Min(found)] = values @@ @]
        ELSE Append(table, values @@ [is_registered |-> FALSE, refno |-> None,
                                      deleted |-> FALSE])

has_product(S, product_id) ==
    LET query(row) == /\ row.product_id = product_id
                      /\ row.service_id = S.adapter.service_id
                      /\ row.deleted = FALSE
        rows == Select(S.product_service, query)
    IN  IF rows # {} THEN S.product_service[Min(rows)].is_registered ELSE FALSE

has_subscription_plan(S, plan_id) ==
    LET query(row) == /\ row.plan_id = plan_id
                      /\ row.service_id = S.adapter.service_id
                      /\ row.deleted = FALSE
        rows == Select(S.plan_service, query)
    IN  IF rows # {} THEN S.plan_service[Min(rows)].is_registered ELSE FALSE

----------------------------------------------------------------------------
(* PayPalAdapter: products *)

\* (variant: the update is logged as an error and fails)
update_product_failing(S, product_id) ==
    {Return(LogError(S, <<"Update product", product_id>>,
                     <<"Not supported by API">>), FALSE)}

update_product(S, product_id) ==
    {Return(LogInfo(S, <<"Update product", product_id>>,
                    <<"Not supported by API">>), TRUE)}

retire_product(S, product_id) ==
    {Return(LogInfo(S, <<"Retire product", product_id>>,
                    <<"Not supported by API">>), TRUE)}

\* the link upsert of register_product; its key has no deleted filter
link_product(S, product_id, refno) ==
    LET key(row) == /\ row.product_id = product_id
                    /\ row.service_id = S.adapter.service_id
    IN  [S EXCEPT !.product_service =
            update_or_insert(@, key, [product_id |-> product_id,
                                      service_id |-> S.adapter.service_id,
                                      is_registered |-> TRUE,
                                      refno |-> refno])]

\* register_product for a product that is not registered yet
post_product(S, product_id) ==
    LET action == <<"Register Product", product_id>>
    IN  IF product_id \notin DOMAIN fin_product THEN
            {Return(LogError(S, action, <<"Product not found">>), FALSE)}
        ELSE
            { IF Truthy(r.error) THEN
                  Return(LogError(r.s, action, Reason(r.status, r.error)), FALSE)
              ELSE
                  LET S1 == LogSuccess(r.s, action)
                  IN  IF ~IsDict(r.output) THEN Raise(S1, FALSE, "TypeError")
                      ELSE IF "id" \notin DOMAIN r.output
                      THEN Raise(S1, FALSE, "KeyError")
                      ELSE Return(link_product(S1, product_id, r.output["id"]),
                                  TRUE)
              : r \in http(S, "POST", PRODUCTS_PATH,
                            [name |-> fin_product[product_id].name], "Token") }

\* (variant: the existence check is skipped)
register_product_anew(S, product_id) ==
    post_product(S, product_id)

register_product(S, product_id) ==
    IF has_product(S, product_id)
    THEN update_product(S, product_id)
    ELSE post_product(S, product_id)

----------------------------------------------------------------------------
(* PayPalAdapter: subscription plans *)

update_subscription_plan(S, plan_id) ==
    {Return(LogInfo(S, <<"Update subscription plan", plan_id>>,
                    <<"Not yet implemented">>), TRUE)}

\* (variant: the link row is written without the registered flag)
link_plan_unregistered(S, plan_id, refno) ==
    LET key(row) == /\ row.plan_id = plan_id
                    /\ row.service_id = S.adapter.service_id
                    /\ row.deleted = FALSE
    IN  [S EXCEPT !.plan_service =
            update_or_insert(@, key, [plan_id |-> plan_id,
                                      service_id |-> S.adapter.service_id,
                                      is_registered |-> FALSE,
                                      refno |-> refno])]

\* the link upsert of register_subscription_plan; its key filters deleted rows
link_plan(S, plan_id, refno) ==
    LET key(row) == /\ row.plan_id = plan_id
                    /\ row.service_id = S.adapter.service_id
                    /\ row.deleted = FALSE
    IN  [S EXCEPT !.plan_service =
            update_or_insert(@, key, [plan_id |-> plan_id,
                                      service_id |-> S.adapter.service_id,
                                      is_registered |-> TRUE,
                                      refno |-> refno])]

\* the reference number of the product's link row, None without a row
product_refno(S, product_id) ==
    LET query(row) == /\ row.product_id = product_id
                      /\ row.service_id = S.adapter.service_id
                      /\ row.deleted = FALSE
        rows == Select(S.product_service, query)
    IN  IF rows # {} THEN S.product_service[Min(rows)].refno ELSE None

\* (variant: the stored number of cycles is sent for every plan)
plan_data_stored(S, plan_id, product_id) ==
    LET plan == fin_subscription_plan[plan_id]
    IN  [product_id |-> product_refno(S, product_id),
         tenure_type |-> "REGULAR",
         sequence |-> 1,
         total_cycles |-> plan.total_cycles,
         auto_bill_outstanding |-> TRUE,
         payment_failure_threshold |-> 0]

\* the payload of the plan-creation POST
plan_data(S, plan_id, product_id) ==
    LET plan == fin_subscription_plan[plan_id]
    IN  [product_id |-> product_refno(S, product_id),
         tenure_type |-> "REGULAR",
         sequence |-> 1,
         total_cycles |-> IF plan.fixed THEN plan.total_cycles ELSE 0,
         auto_bill_outstanding |-> TRUE,
         payment_failure_threshold |-> 0]

\* (variant: only a missing link counts, an empty reference number passes)
no_refno_unless_empty(refno) == refno = None

\* if not product or not product.refno
no_refno(refno) == Falsy(refno)

\* second half of register_subscription_plan: from the reference lookup on
post_plan(S, plan_id, product_id) ==
    LET action == <<"Register subscription plan", plan_id>>
    IN  IF no_refno(product_refno(S, product_id)) THEN
            {Return(LogError(S, action, <<"Product reference number missing">>),
                    FALSE)}
        ELSE
            { IF Truthy(r.error) THEN
                  Return(LogError(r.s, action, Reason(r.status, r.error)), FALSE)
              ELSE
                  LET S1 == LogSuccess(r.s, action)
                  IN  IF ~IsDict(r.output) THEN Raise(S1, FALSE, "TypeError")
                      ELSE IF "id" \notin DOMAIN r.output
                      THEN Raise(S1, FALSE, "KeyError")
                      ELSE Return(link_plan(S1, plan_id, r.output["id"]), TRUE)
              : r \in http(S, "POST", PLANS_PATH, plan_data(S, plan_id, product_id),
                            "Token") }

register_subscription_plan(S, plan_id) ==
    IF has_subscription_plan(S, plan_id) THEN
        update_subscription_plan(S, plan_id)
    ELSE
        LET action == <<"Register subscription plan", plan_id>>
        IN  IF plan_id \notin DOMAIN fin_subscription_plan THEN
                {Return(LogError(S, action, <<"Subscription plan not found">>),
                        FALSE)}
            ELSE IF S.plan_status[plan_id] # "ACTIVE" THEN
                {Return(LogError(S, action,
                                 <<"Cannot register inactive subscription plan">>),
                        FALSE)}
            ELSE
                LET product_id == fin_subscription_plan[plan_id].product_id
                IN  IF has_product(S, product_id) THEN
                        post_plan(S, plan_id, product_id)
                    ELSE
                        UNION { IF p.exc # "" THEN {p}
                                ELSE IF ~p.ret THEN
                                    {Return(LogError(p.s, action,
                                        <<"Could not register product with service">>),
                                        FALSE)}
                                ELSE post_plan(p.s, plan_id, product_id)
                                : p \in register_product(S, product_id) }

----------------------------------------------------------------------------
(* Subscriber and merchant lookups *)

\* S3PaymentService.get_subscriber_info: (info, error)
S3PaymentService_get_subscriber_info(pe_id) ==
    IF pe_id \notin DOMAIN pr_pentity THEN
        [info |-> NoneBody, error |-> "Unknown subscriber"]
    ELSE
        LET e == pr_pentity[pe_id]
            type == e.instance_type
            named == IF type = "org_organisation"
                     THEN [first_name |-> e.name]
                     ELSE [first_name |-> e.first_name, last_name |-> e.last_name]
        IN  IF type \notin {"org_organisation", "pr_person"} THEN
                [info |-> NoneBody, error |-> "Invalid subscriber type"]
            ELSE
                [info |-> IF "email" \in DOMAIN e
                          THEN named @@ [email |-> e.email] ELSE named,
                 error |-> None]

\* (variant: the email address is left out)
get_subscriber_info_bare(pe_id) ==
    LET r == S3PaymentService_get_subscriber_info(pe_id)
    IN  IF Truthy(r.error) THEN [info |-> NoneBody, error |-> r.error]
        ELSE [info |-> [name |-> [given_name |-> r.info.first_name]],
              error |-> None]

\* PayPalAdapter.get_subscriber_info: the PayPal structure of the info
get_subscriber_info(pe_id) ==
    LET r == S3PaymentService_get_subscriber_info(pe_id)
    IN  IF Truthy(r.error) THEN [info |-> NoneBody, error |-> r.error]
        ELSE LET info == r.info
                 name == IF "last_name" \in DOMAIN info
                         THEN [given_name |-> info.first_name,
                               surname |-> info.last_name]
                         ELSE [given_name |-> info.first_name]
             IN  [info |-> IF "email" \in DOMAIN info
                           THEN [name |-> name, email_address |-> info.email]
                           ELSE [name |-> name],
                  error |-> None]

get_merchant_name(product_id) ==
    IF product_id \in DOMAIN fin_product /\ Truthy(fin_product[product_id].organisation)
    THEN fin_product[product_id].organisation
    ELSE None

----------------------------------------------------------------------------
(* PayPalAdapter.register_subscription *)

NoDate == -1

\* stable.insert(plan_id, service_id, pe_id): the pending record
insert_subscription(S, plan_id, pe_id) ==
    [S EXCEPT !.subscription = @ \cup {[id |-> S.next_id,
                                        plan_id |-> plan_id,
                                        service_id |-> S.adapter.service_id,
                                        pe_id |-> pe_id,
                                        refno |-> None,
                                        approval_url |-> None,
                                        status |-> None,
                                        status_date |-> NoDate]},
              !.next_id = @ + 1]

\* db(stable.id == subscription_id).delete()
delete_subscription(S, subscription_id) ==
    [S EXCEPT !.subscription = {r \in @ : r.id # subscription_id}]

\* db(stable.id == subscription_id).update(refno, approval_url)
update_subscription(S, subscription_id, ref, approval_url) ==
    [S EXCEPT !.subscription =
        {IF r.id = subscription_id
         THEN [r EXCEPT !.refno = ref, !.approval_url = approval_url]
         ELSE r : r \in @}]

\* the reference number of the plan's link row
plan_refno(S, plan_id) ==
    LET query(row) == /\ row.plan_id = plan_id
                      /\ row.service_id = S.adapter.service_id
                      /\ row.deleted = FALSE
        rows == Select(S.plan_service, query)
    IN  IF rows # {} THEN S.plan_service[Min(rows)].refno ELSE None

\* positions of the links with rel == "approve"
approve_links(links) ==
    {i \in DOMAIN links : links[i].rel = "approve"}

\* (variant: the first link is taken, whatever its relation)
approval_href_first(links) == links[1].href

\* the href of the first link with rel == "approve"
approval_href(links) == links[Min(approve_links(links))].href

\* register_subscription from the reference lookup on (plan is registered)
post_subscription(S, plan_id, pe_id) ==
    LET action == <<"Register subscription", pe_id, plan_id>>
        refno == plan_refno(S, plan_id)
        merchant == get_merchant_name(fin_subscription_plan[plan_id].product_id)
        S1 == IF Falsy(merchant)
              THEN LogWarning(S, action, <<"Unknown merchant">>) ELSE S
        subscriber == get_subscriber_info(pe_id)
        subscription_id == S1.next_id
        S2 == insert_subscription(S1, plan_id, pe_id)
        data == [plan_id |-> refno,
                 subscriber |-> subscriber.info,
                 brand_name |-> IF Falsy(merchant) THEN "Unknown" ELSE merchant,
                 user_action |-> "SUBSCRIBE_NOW",
                 return_url |-> <<subscription_id, "confirm">>,
                 cancel_url |-> <<subscription_id, "cancel">>]
    IN  IF Truthy(subscriber.error) THEN
            {Return(LogFatal(S1, action, <<subscriber.error>>), NoId)}
        ELSE
            { IF Truthy(r.error) THEN
                  Return(delete_subscription(
                             LogError(r.s, action, Reason(r.status, r.error)),
                             subscription_id), NoId)
              ELSE IF ~IsDict(r.output) THEN Raise(r.s, NoId, "TypeError")
              ELSE IF "id" \notin DOMAIN r.output THEN Raise(r.s, NoId, "KeyError")
              ELSE IF Falsy(r.output["id"]) THEN
                  Return(delete_subscription(
                             LogError(r.s, action,
                                      <<"No subscription reference received">>),
                             subscription_id), NoId)
              ELSE IF "links" \notin DOMAIN r.output THEN Raise(r.s, NoId, "KeyError")
              ELSE IF approve_links(r.output["links"]) = {} THEN
                  Raise(r.s, NoId, "UnboundLocalError")
              ELSE
                  LET approval_url == approval_href(r.output["links"])
                  IN  Return(LogSuccess(update_subscription(
                                 r.s, subscription_id, r.output["id"], approval_url),
                                 action), subscription_id)
              : r \in http(S2, "POST", SUBSCRIPTIONS_PATH, data, "Token") }

\* (variant: a failed plan registration is tried a second time)
register_subscription_retry(S, plan_id, pe_id) ==
    LET action == <<"Register subscription", pe_id, plan_id>>
    IN  IF \/ plan_id \notin DOMAIN fin_subscription_plan
           \/ S.plan_status[plan_id] = "INACTIVE"
        THEN {Return(LogFatal(S, action, <<"Subscription plan not found">>), NoId)}
        ELSE IF has_subscription_plan(S, plan_id)
        THEN post_subscription(S, plan_id, pe_id)
        ELSE UNION { IF q.exc # "" THEN {Raise(q.s, NoId, q.exc)}
                     ELSE IF ~q.ret THEN
                         UNION { IF r.exc # "" THEN {Raise(r.s, NoId, r.exc)}
                                 ELSE IF ~r.ret THEN
                                     {Return(LogFatal(r.s, action,
                                         <<"Could not register subscription plan",
                                           plan_id>>), NoId)}
                                 ELSE post_subscription(r.s, plan_id, pe_id)
                                 : r \in register_subscription_plan(q.s, plan_id) }
                     ELSE post_subscription(q.s, plan_id, pe_id)
                     : q \in register_subscription_plan(S, plan_id) }

register_subscription(S, plan_id, pe_id) ==
    LET action == <<"Register subscription", pe_id, plan_id>>
    IN  IF \/ plan_id \notin DOMAIN fin_subscription_plan
           \/ S.plan_status[plan_id] = "INACTIVE"
        THEN {Return(LogFatal(S, action, <<"Subscription plan not found">>), NoId)}
        ELSE IF has_subscription_plan(S, plan_id)
        THEN post_subscription(S, plan_id, pe_id)
        ELSE UNION { IF q.exc # "" THEN {Raise(q.s, NoId, q.exc)}
                     ELSE IF ~q.ret THEN
                         {Return(LogFatal(q.s, action,
                             <<"Could not register subscription plan", plan_id>>),
                             NoId)}
                     ELSE post_subscription(q.s, plan_id, pe_id)
                     : q \in register_subscription_plan(S, plan_id) }

----------------------------------------------------------------------------
(* PayPalAdapter.check_subscription *)

\* db(stable.id==subscription_id).update(status, status_date), then
\* s3db.onaccept(stable, data, method="update"); the call of onaccept is an
\* event of the trace, with the record as the callback finds it
update_status(S, subscription_id, subscription_status) ==
    LET data == [status |-> subscription_status, status_date |-> S.now]
        S1 == [S EXCEPT !.subscription =
                  {IF r.id = subscription_id
                   THEN [r EXCEPT !.status = data.status,
                                  !.status_date = data.status_date]
                   ELSE r : r \in @}]
    IN  [S1 EXCEPT !.trace = Append(@,
            [ev |-> "onaccept", table |-> "fin_subscription",
             method |-> "update",
             data |-> [status |-> data.status, status_date |-> data.status_date,
                       id |-> subscription_id],
             found |-> {r \in S1.subscription : r.id = subscription_id}])]

check_subscription(S, subscription_id) ==
    LET action == <<"Check subscription", subscription_id>>
        rows == {r \in S.subscription : r.id = subscription_id}
        row == CHOOSE r \in rows : TRUE
    IN  IF rows = {} THEN
            {Return(LogError(S, action, <<"Subscription not found">>), None)}
        ELSE
            { IF Truthy(r.error) THEN
                  IF r.status = "404" THEN
                      Return(update_status(
                                 LogWarning(r.s, action, <<"Subscription not found">>),
                                 subscription_id, "CANCELLED"), "CANCELLED")
                  ELSE
                      Return(LogError(r.s, action, Reason(r.status, r.error)),
                             None)
              ELSE IF ~IsDict(r.output) THEN
                  \* response.get on None
                  Raise(r.s, None, "AttributeError")
              ELSE IF "status" \in DOMAIN r.output /\ Truthy(r.output["status"]) THEN
                  Return(update_status(LogSuccess(r.s, action), subscription_id,
                                       r.output["status"]), r.output["status"])
              ELSE
                  Return(update_status(
                             LogWarning(r.s, action, <<"Unclear subscription status">>),
                             subscription_id, None), None)
              : r \in http(S, "GET", StatusPath(row.refno), << >>, "Token") }

----------------------------------------------------------------------------
(* Adapter factory and the onaccept hooks of the link tables *)

ADAPTERS == {"PAYPAL"}

\* the class the adapters dict holds for an API type
AdapterClass(api_type) ==
    IF api_type = "PAYPAL" THEN "PayPalAdapter" ELSE None

\* (variant: every API type gets the PayPal adapter)
S3PaymentService_adapter_any(S, service_id) ==
    IF service_id # S.service.id THEN
        [exc |-> "KeyError", adapter |-> S.adapter, cls |-> None]
    ELSE
        [exc |-> "", adapter |-> S3PaymentService_init(S.service),
         cls |-> "PayPalAdapter"]

\* S3PaymentService.adapter: the instance and its class, or the exception
\* raised
S3PaymentService_adapter(S, service_id) ==
    IF service_id # S.service.id THEN
        [exc |-> "KeyError", adapter |-> S.adapter, cls |-> None]
    ELSE IF S.service.api_type \notin ADAPTERS THEN
        [exc |-> "ValueError", adapter |-> S.adapter, cls |-> None]
    ELSE
        [exc |-> "", adapter |-> S3PaymentService_init(S.service),
         cls |-> AdapterClass(S.service.api_type)]

\* the row a create-form of fin_product_service inserts
new_product_link(product_id, service_id) ==
    [product_id |-> product_id, service_id |-> service_id,
     is_registered |-> FALSE, refno |-> None, deleted |-> FALSE]

\* the row a create-form of fin_subscription_plan_service inserts
new_plan_link(plan_id, service_id) ==
    [plan_id |-> plan_id, service_id |-> service_id,
     is_registered |-> FALSE, refno |-> None, deleted |-> FALSE]

\* outcomes [s, ret, exc, error]: error is current.response.error
product_service_onaccept(S, record_id, bulk) ==
    IF record_id = NoId \/ bulk THEN
        {[s |-> S, ret |-> FALSE, exc |-> "", error |-> None]}
    ELSE IF record_id \notin DOMAIN S.product_service
            \/ S.product_service[record_id].deleted THEN
        {[s |-> S, ret |-> FALSE, exc |-> "", error |-> None]}
    ELSE
        LET row == S.product_service[record_id]
            f == S3PaymentService_adapter(S, row.service_id)
        IN  IF f.exc # "" THEN
                {[s |-> S, ret |-> FALSE, exc |-> "",
                  error |-> "Service registration failed: exception"]}
            ELSE
                { [s |-> [o.s EXCEPT !.adapter = S.adapter],
                   ret |-> o.ret, exc |-> o.exc,
                   error |-> IF o.exc = "" /\ ~o.ret
                             THEN "Service registration failed" ELSE None]
                  : o \in register_product([S EXCEPT !.adapter = f.adapter],
                                           row.product_id) }

subscription_plan_service_onaccept(S, record_id, bulk) ==
    IF record_id = NoId \/ bulk THEN
        {[s |-> S, ret |-> FALSE, exc |-> "", error |-> None]}
    ELSE IF record_id \notin DOMAIN S.plan_service
            \/ S.plan_service[record_id].deleted THEN
        {[s |-> S, ret |-> FALSE, exc |-> "", error |-> None]}
    ELSE
        LET row == S.plan_service[record_id]
            f == S3PaymentService_adapter(S, row.service_id)
        IN  IF f.exc # "" THEN
                {[s |-> S, ret |-> FALSE, exc |-> "",
                  error |-> "Service registration failed: exception"]}
            ELSE
                { [s |-> [o.s EXCEPT !.adapter = S.adapter],
                   ret |-> o.ret, exc |-> o.exc,
                   error |-> IF o.exc = "" /\ ~o.ret
                             THEN "Service registration failed" ELSE None]
                  : o \in register_subscription_plan(
                              [S EXCEPT !.adapter = f.adapter], row.plan_id) }

----------------------------------------------------------------------------
(* fin_subscription_plan: form validation *)

\* an integer field left empty
NoValue == -1

interval_units == {"DAY", "WEEK", "MONTH", "YEAR"}

\* IS_INT_IN_RANGE(minimum, maximum): minimum <= value < maximum
IS_INT_IN_RANGE(minimum, maximum, value) ==
    value # NoValue /\ minimum <= value /\ value < maximum

\* the validators of interval_count and total_cycles; the errors of a form
\* are pairs of field and message
field_errors(form_vars) ==
    {<<"interval_count", "Enter an integer between 1 and 364">> : x \in
        {y \in {0} : ~IS_INT_IN_RANGE(1, 365, form_vars.interval_count)}}
    \cup
    {<<"total_cycles", "Enter an integer between 0 and 998">> : x \in
        {y \in {0} : /\ form_vars.total_cycles # NoValue
                      /\ ~IS_INT_IN_RANGE(0, 999, form_vars.total_cycles)}}

MAX_INTERVAL == [DAY |-> 365, WEEK |-> 52, MONTH |-> 12, YEAR |-> 1]

\* form_vars.<name>: a Storage gives None for a name it does not hold
StorageGet(form_vars, name) ==
    IF name \in DOMAIN form_vars THEN form_vars[name] ELSE NoValue

subscription_plan_onvalidation(form_vars) ==
    LET unit == StorageGet(form_vars, "interval_unit")
        count == StorageGet(form_vars, "interval_count")
        limit == IF unit \in DOMAIN MAX_INTERVAL THEN MAX_INTERVAL[unit] ELSE 0
        fixed == StorageGet(form_vars, "fixed")
        cycles == StorageGet(form_vars, "cycles")
    IN  {<<"interval_count", "Interval can be at most 1 year">> : x \in
            {y \in {0} : limit # 0 /\ count > limit}}
        \cup
        {<<"total_cycles", "Fixed-term plan must specify number of cycles">> :
            x \in {y \in {0} : fixed = TRUE /\ cycles \in {NoValue, 0}}}

\* a form is validated field by field, and by onvalidation when no field
\* has an error
validate_plan(form_vars) ==
    IF field_errors(form_vars) # {}
    THEN field_errors(form_vars)
    ELSE subscription_plan_onvalidation(form_vars)

----------------------------------------------------------------------------
(* Initial state: a configured service without a token, empty tables *)

\* the requests that run concurrently
Procs == {1, 2}

NoResponse == [output |-> NoneBody, status |-> NoStatus, error |-> None]

\* a request that has not started: no header, no token response, nothing
\* sent
Idle(row) ==
    [pc |-> "idle", adapter |-> S3PaymentService_init(row), now0 |-> 0,
     token_type |-> "Bearer", stored |-> << >>, header |-> NoHeader,
     credentials |-> NoneBody, fetched |-> FALSE, store_no |-> 0,
     response |-> NoResponse, posted |-> FALSE, success |-> FALSE]

ServiceRows ==
    [id : {SERVICE_ID}, api_type : {"PAYPAL"},
     base_url : {None, "https://api.provider"},
     use_proxy : {FALSE}, proxy : {None},
     username : {None, "client-id"}, password : {None, "client-secret"},
     token_type : {None}, access_token : {None}, token_expiry_date : {NoExpiry}]

\* the record of a call: method, arguments, return value, exception,
\* trace of requests, length of the log before the call, response.error
NoCall == [op |-> "none", args |-> << >>, ret |-> None, exc |-> "",
           trace |-> << >>, log0 |-> 0, error |-> None, diag |-> << >>]

Init ==
    /\ now = 0
    /\ service \in {r \in ServiceRows : Truthy(r.username) = Truthy(r.password)}
    /\ adapter = S3PaymentService_init(service)
    /\ product_service = << >>
    /\ plan_service = << >>
    /\ subscription = {}
    /\ next_id = 1
    /\ log = << >>
    /\ plan_status = [p \in DOMAIN fin_subscription_plan |->
                         fin_subscription_plan[p].status]
    /\ procs = [p \in Procs |-> Idle(service)]
    /\ last = NoCall

\* the inputs of the adapter factory: rows of any API type
InitFactory ==
    /\ now = 0
    /\ service \in {[r EXCEPT !.api_type = t] :
                      r \in {q \in ServiceRows : Truthy(q.username)
                                                  /\ Truthy(q.password)},
                      t \in {"PAYPAL", "OTHER", None}}
    /\ adapter = S3PaymentService_init(service)
    /\ product_service = << >>
    /\ plan_service = << >>
    /\ subscription = {}
    /\ next_id = 1
    /\ log = << >>
    /\ plan_status = [p \in DOMAIN fin_subscription_plan |->
                         fin_subscription_plan[p].status]
    /\ procs = [p \in Procs |-> Idle(service)]
    /\ last = NoCall

----------------------------------------------------------------------------
(* Actions: one adapter call per step *)

\* the state after a call with outcome o, and the record of the call
Apply(op, args, o, error) ==
    /\ service' = o.s.service
    /\ adapter' = o.s.adapter
    /\ product_service' = o.s.product_service
    /\ plan_service' = o.s.plan_service
    /\ subscription' = o.s.subscription
    /\ next_id' = o.s.next_id
    /\ log' = o.s.log
    /\ last' = [op |-> op, args |-> args, ret |-> o.ret, exc |-> o.exc,
                trace |-> o.s.trace, log0 |-> Len(log), error |-> error,
                diag |-> o.s.diag]
    /\ UNCHANGED <<now, plan_status, procs>>

CanCall == Len(log) < MaxLog
\* status checks follow a subscription, which takes four entries
CanCheck == Len(log) < MaxCheckLog

\* record ids a caller can pass to check_subscription
SubscriptionArgs == {1, 2}

GetAccessToken(provider) ==
    /\ CanCall
    /\ \E o \in get_access_token(State(provider)) :
          Apply("get_access_token", << >>, o, None)

RegisterProduct ==
    /\ CanCall
    /\ \E product_id \in ProductArgs :
       \E o \in register_product(State(SomeToken), product_id) :
          Apply("register_product", <<product_id>>, o, None)

RegisterSubscriptionPlan(provider, plans) ==
    /\ CanCall
    /\ \E plan_id \in plans :
       \E o \in register_subscription_plan(State(provider), plan_id) :
          Apply("register_subscription_plan", <<plan_id>>, o, None)

RegisterSubscription ==
    /\ CanCall
    /\ next_id <= MaxSubs
    /\ \E plan_id \in PlanArgs, pe_id \in SubscriberArgs :
       \E o \in register_subscription(State(SomeToken), plan_id, pe_id) :
          Apply("register_subscription", <<plan_id, pe_id>>, o, None)

\* a create-form on fin_product_service: insert, then onaccept
CreateProductService ==
    /\ CanCall
    /\ Len(product_service) < MaxLinks
    /\ \E product_id \in DOMAIN fin_product, bulk \in BOOLEAN :
       LET S == [State(SomeToken) EXCEPT !.product_service =
                    Append(@, new_product_link(product_id, SERVICE_ID))]
       IN  \E o \in product_service_onaccept(S, Len(S.product_service), bulk) :
              Apply("product_service_onaccept", <<product_id, bulk>>,
                    o, o.error)

\* a create-form on fin_subscription_plan_service: insert, then onaccept
CreatePlanService ==
    /\ CanCall
    /\ Len(plan_service) < MaxLinks
    /\ \E plan_id \in DOMAIN fin_subscription_plan, bulk \in BOOLEAN :
       LET S == [State(SomeToken) EXCEPT !.plan_service =
                    Append(@, new_plan_link(plan_id, SERVICE_ID))]
       IN  \E o \in subscription_plan_service_onaccept(
                        S, Len(S.plan_service), bulk) :
              Apply("subscription_plan_service_onaccept",
                    <<plan_id, bulk>>, o, o.error)

\* create-forms of the link tables for any service a user can enter:
\* insert, then onaccept
CreateProductLink ==
    /\ CanCall
    /\ Len(product_service) < MaxLinks
    /\ \E product_id \in DOMAIN fin_product, bulk \in BOOLEAN,
          service_id \in {SERVICE_ID, "s9"} :
       LET S == [State(SomeToken) EXCEPT !.product_service =
                    Append(@, new_product_link(product_id, service_id))]
       IN  \E o \in product_service_onaccept(S, Len(S.product_service), bulk) :
              Apply("product_service_onaccept",
                    <<product_id, bulk, service_id>>, o, o.error)

CreatePlanLink ==
    /\ CanCall
    /\ Len(plan_service) < MaxLinks
    /\ \E plan_id \in DOMAIN fin_subscription_plan, bulk \in BOOLEAN,
          service_id \in {SERVICE_ID, "s9"} :
       LET S == [State(SomeToken) EXCEPT !.plan_service =
                    Append(@, new_plan_link(plan_id, service_id))]
       IN  \E o \in subscription_plan_service_onaccept(
                        S, Len(S.plan_service), bulk) :
              Apply("subscription_plan_service_onaccept",
                    <<plan_id, bulk, service_id>>, o, o.error)

\* what a user can enter in the form of a subscription plan
IntervalCounts == {0, 1, 2, 12, 13, 52, 53, 364, 365, 366}
TotalCycles == {NoValue, 0, 1, 12, 998, 999}
PlanForms ==
    [interval_unit : interval_units, interval_count : IntervalCounts,
     fixed : BOOLEAN, total_cycles : TotalCycles]

\* a request submits a create-form of fin_subscription_plan
ValidatePlan ==
    /\ last.op = "none"
    /\ \E form_vars \in PlanForms :
          last' = [NoCall EXCEPT !.op = "validate_plan",
                                 !.args = <<form_vars>>,
                                 !.ret = validate_plan(form_vars)]
    /\ UNCHANGED <<now, service, adapter, product_service, plan_service,
                   subscription, next_id, log, plan_status, procs>>

\* a request calls onvalidation with the values of a record, as an import
\* does
OnValidation ==
    /\ last.op = "none"
    /\ \E form_vars \in PlanForms :
          last' = [NoCall EXCEPT !.op = "subscription_plan_onvalidation",
                                 !.args = <<form_vars>>,
                                 !.ret = subscription_plan_onvalidation(form_vars)]
    /\ UNCHANGED <<now, service, adapter, product_service, plan_service,
                   subscription, next_id, log, plan_status, procs>>

\* a link row is deleted: the row stays in its table, flagged as deleted
\* (ondelete is not implemented and changes nothing)
DeleteProductLink ==
    /\ \E i \in DOMAIN product_service :
          /\ ~product_service[i].deleted
          /\ product_service' = [product_service EXCEPT ![i].deleted = TRUE]
    /\ last' = NoCall
    /\ UNCHANGED <<now, service, adapter, plan_service, subscription, next_id,
                   log, plan_status, procs>>

DeletePlanLink ==
    /\ \E i \in DOMAIN plan_service :
          /\ ~plan_service[i].deleted
          /\ plan_service' = [plan_service EXCEPT ![i].deleted = TRUE]
    /\ last' = NoCall
    /\ UNCHANGED <<now, service, adapter, product_service, subscription,
                   next_id, log, plan_status, procs>>

\* the next request arrives later
Tick ==
    /\ now < MaxTime
    /\ now' = now + 1
    /\ last' = NoCall
    /\ UNCHANGED <<service, adapter, product_service, plan_service,
                   subscription, next_id, log, plan_status, procs>>

\* a new request constructs its adapter from the service row
NewAdapter ==
    /\ adapter # S3PaymentService_init(service)
    /\ adapter' = S3PaymentService_init(service)
    /\ last' = NoCall
    /\ UNCHANGED <<now, service, product_service, plan_service,
                   subscription, next_id, log, plan_status, procs>>

\* userinfo request, a request with Token authentication
GetUserInfo(provider) ==
    /\ CanCall
    /\ \E o \in get_user_info(State(provider)) :
          Apply("get_user_info", << >>, o, None)

\* a subscription of subscriber 1 to plan 1, where the registrations succeed
Subscribe ==
    /\ CanCheck
    /\ next_id <= MaxSubs
    /\ \E o \in register_subscription(State(Registering), 1, 1) :
          Apply("register_subscription", <<1, 1>>, o, None)

\* a status check of a subscription, existing or not
CheckSubscription ==
    /\ CanCheck
    /\ \E subscription_id \in SubscriptionArgs :
       \E o \in check_subscription(State(Registering), subscription_id) :
          Apply("check_subscription", <<subscription_id>>, o, None)

\* values of the auth parameter of http: False, "Basic", "Token" and
\* another true value
AuthModes == {"", "Basic", "Token", "True"}

\* the classes of an instance: an adapter, or the base class, which has no
\* token request
Classes == {"PayPalAdapter", "S3PaymentService"}

\* a caller sends a GET request with http, in any auth mode
Http(provider) ==
    /\ CanCall
    /\ \E auth \in AuthModes, cls \in Classes :
       \E r \in http([State(provider) EXCEPT !.cls = cls],
                     "GET", USERINFO_PATH, << >>, auth) :
          Apply("http", <<auth, cls>>,
                [s |-> r.s, exc |-> "",
                 ret |-> [output |-> r.output, status |-> r.status,
                          error |-> r.error]], r.error)

\* a registration of a plan, also after a subscription to it
RegisterPlanAgain ==
    /\ CanCheck
    /\ \E plan_id \in AllPlans :
       \E o \in register_subscription_plan(State(SomeToken), plan_id) :
          Apply("register_subscription_plan", <<plan_id>>, o, None)

\* service ids a caller can pass: the existing one and a missing one
ServiceArgs == {SERVICE_ID, "s9"}

\* a request asks the factory for the adapter of a service
Adapter ==
    /\ \E service_id \in ServiceArgs :
       LET f == S3PaymentService_adapter(State(SomeToken), service_id)
       IN  /\ adapter' = f.adapter
           /\ last' = [op |-> "adapter", args |-> <<service_id>>,
                       ret |-> f.cls, exc |-> f.exc, trace |-> << >>,
                       log0 |-> Len(log), error |-> None, diag |-> << >>]
    /\ UNCHANGED <<now, service, product_service, plan_service,
                   subscription, next_id, log, plan_status, procs>>

\* direct writes to the log per behaviour
MaxWrites == 2

\* what a caller of the log can pass: actions, results and reasons,
\* empty ones included
LogActions == {<< >>, <<"Register product", 1>>}
LogResults == {"", "INFO", "SUCCESS", "WARNING", "ERROR", "FATAL"}
LogReasons == {<< >>, <<"Connection refused">>}

\* a direct write to the log of the adapter
WriteLog ==
    /\ Len(log) < MaxWrites
    /\ \E action \in LogActions, result \in LogResults, reason \in LogReasons :
          Apply("log.write", <<action, result, reason>>,
                Return(LogWrite(State(SomeToken), action, result, reason), None),
                None)

\* direct calls of the operations the provider does not support
UpdateProduct ==
    /\ CanCall
    /\ \E product_id \in ProductArgs :
       \E o \in update_product(State(SomeToken), product_id) :
          Apply("update_product", <<product_id>>, o, None)

RetireProduct ==
    /\ CanCall
    /\ \E product_id \in ProductArgs :
       \E o \in retire_product(State(SomeToken), product_id) :
          Apply("retire_product", <<product_id>>, o, None)

UpdateSubscriptionPlan ==
    /\ CanCall
    /\ \E plan_id \in PlanArgs :
       \E o \in update_subscription_plan(State(SomeToken), plan_id) :
          Apply("update_subscription_plan", <<plan_id>>, o, None)

----------------------------------------------------------------------------
(* Concurrent requests: register_product for the same product, statement by
   statement. Every request has its own adapter instance; a statement on the
   database is one step and is visible to the other request at once. *)

RacedProduct == 1

\* the provider issues one of two tokens and creates a product per POST
Racing ==
    [SomeToken EXCEPT
        ![TOKEN_PATH] =
            {NetError,
             Ok([access_token |-> "t1", expires_in |-> 1]),
             Ok([access_token |-> "t2", token_type |-> "MAC",
                 expires_in |-> 2])},
        ![PRODUCTS_PATH] =
            {NetError, Ok([id |-> "PROD-1"]), Ok([id |-> "PROD-2"])}]

\* the state request p works on: the tables, and its own instance
StateOf(p) == [State(Racing) EXCEPT !.adapter = procs[p].adapter]

\* the tables after a statement of request p, and its new local values
Commit(p, S, rec) ==
    /\ service' = S.service
    /\ product_service' = S.product_service
    /\ log' = S.log
    /\ procs' = [procs EXCEPT ![p] = rec]
    /\ UNCHANGED <<now, adapter, plan_service, subscription, next_id,
                   plan_status, last>>

\* requests between the existence check and the end of the registration
InFlight ==
    {q \in Procs :
        procs[q].pc \in {"opener", "fetch", "store", "send", "link"}}

\* (variant: the check also waits for the registrations in progress)
product_unregistered_alone(S, product_id) ==
    ~has_product(S, product_id) /\ InFlight = {}

\* if self.has_product(product_id): ... else:
product_unregistered(S, product_id) ==
    ~has_product(S, product_id)

\* the request starts: the factory builds the instance from the service row
Begin(p) ==
    /\ procs[p].pc = "idle"
    /\ procs' = [procs EXCEPT ![p].pc = "check",
                              ![p].adapter = S3PaymentService_init(service),
                              ![p].now0 = now]
    /\ UNCHANGED <<now, service, adapter, product_service, plan_service,
                   subscription, next_id, log, plan_status, last>>

\* register_product: the existence check; a registered product is updated
CheckProduct(p) ==
    /\ procs[p].pc = "check"
    /\ IF product_unregistered(StateOf(p), RacedProduct)
       THEN Commit(p, StateOf(p), [procs[p] EXCEPT !.pc = "opener"])
       ELSE \E o \in update_product(StateOf(p), RacedProduct) :
               Commit(p, o.s, [procs[p] EXCEPT !.pc = "done",
                                                !.success = o.ret])

\* _http_opener with auth Token: the token of the instance is read
Opener(p) ==
    /\ procs[p].pc = "opener"
    /\ LET a == procs[p].adapter
           token_type == IF Truthy(a.token_type) THEN a.token_type
                         ELSE "Bearer"
           rec == [procs[p] EXCEPT
                      !.token_type = token_type,
                      !.stored = [access_token |-> a.access_token,
                                  token_expiry_date |-> a.token_expiry_date]]
       IN  IF Falsy(a.base_url) THEN
               \* http returns before the opener is built
               Commit(p, StateOf(p),
                      [procs[p] EXCEPT !.pc = "link",
                          !.response = [output |-> NoneBody,
                                        status |-> NoStatus,
                                        error |-> "No base URL set"]])
           ELSE IF token_unusable(a.access_token, a.token_expiry_date,
                                  procs[p].now0)
           THEN Commit(p, StateOf(p), [rec EXCEPT !.pc = "fetch"])
           ELSE Commit(p, StateOf(p),
                       [rec EXCEPT !.pc = "send",
                                   !.header = <<token_type, a.access_token>>])

\* get_access_token up to the answer of the provider
Fetch(p) ==
    /\ procs[p].pc = "fetch"
    /\ LET S == StateOf(p)
           action == <<"Get Access Token">>
           failed(o) == Commit(p, o.s, [procs[p] EXCEPT !.pc = "send"])
       IN  IF Truthy(S.adapter.username) /\ Truthy(S.adapter.password) THEN
               \E r \in http(S, "POST", TOKEN_PATH,
                             [grant_type |-> "client_credentials"], "Basic") :
                   IF Truthy(r.error) THEN
                       failed(no_token(r.s, action, <<r.error>>))
                   ELSE IF BodyTruthy(r.output) THEN
                       IF "access_token" \notin DOMAIN r.output
                       THEN failed(no_token(r.s, action,
                                            <<"No access token received">>))
                       ELSE Commit(p, r.s,
                                   [procs[p] EXCEPT !.pc = "store",
                                                    !.credentials = r.output])
                   ELSE failed(no_token(r.s, action,
                                        <<"No credentials received">>))
           ELSE failed(no_token(S, action,
                   <<"Lacking client ID/secret to fetch access token">>))

\* the number of the next update of the service row
NextStore ==
    1 + Cardinality({q \in Procs : procs[q].store_no > 0})

\* get_access_token from the update of the service row to its return
StoreToken(p) ==
    /\ procs[p].pc = "store"
    /\ LET S1 == store_token(StateOf(p), procs[p].now0, procs[p].credentials)
           S2 == LogSuccess(S1, <<"Get Access Token">>)
       IN  Commit(p, S2,
                  [procs[p] EXCEPT
                      !.pc = "send",
                      !.adapter = S2.adapter,
                      !.fetched = TRUE,
                      !.store_no = NextStore,
                      !.header = <<procs[p].token_type,
                                   S2.adapter.access_token>>])

\* the product POST with the header of the opener
SendProduct(p) ==
    /\ procs[p].pc = "send"
    /\ LET a == procs[p].adapter
           o == [auth |-> "Token", stored |-> procs[p].stored,
                 header |-> procs[p].header,
                 handler |-> handler401("Token", a.username, a.password)]
       IN  \E r \in open(StateOf(p), "POST", PRODUCTS_PATH,
                         [name |-> fin_product[RacedProduct].name], o) :
              Commit(p, r.s,
                     [procs[p] EXCEPT
                         !.pc = "link", !.posted = TRUE,
                         !.response = [output |-> r.output,
                                       status |-> r.status,
                                       error |-> r.error]])

\* register_product after the answer: log entry and link record
LinkProduct(p) ==
    /\ procs[p].pc = "link"
    /\ LET S == StateOf(p)
           r == procs[p].response
           action == <<"Register Product", RacedProduct>>
       IN  IF Truthy(r.error) THEN
               Commit(p, LogError(S, action, Reason(r.status, r.error)),
                      [procs[p] EXCEPT !.pc = "done", !.success = FALSE])
           ELSE
               Commit(p, link_product(LogSuccess(S, action), RacedProduct,
                                      r.output["id"]),
                      [procs[p] EXCEPT !.pc = "done", !.success = TRUE])

\* an update form of fin_subscription_plan sets an ACTIVE plan INACTIVE
DeactivatePlan ==
    /\ \E plan_id \in DOMAIN plan_status :
          /\ plan_status[plan_id] = "ACTIVE"
          /\ plan_status' = [plan_status EXCEPT ![plan_id] = "INACTIVE"]
    /\ last' = NoCall
    /\ UNCHANGED <<now, service, adapter, product_service, plan_service,
                   subscription, next_id, log, procs>>

\* an update form of fin_payment_service empties the base URL; the next
\* request constructs its adapter from the row
ClearBaseUrl ==
    /\ Truthy(service.base_url)
    /\ service' = [service EXCEPT !.base_url = None]
    /\ adapter' = S3PaymentService_init(service')
    /\ last' = NoCall
    /\ UNCHANGED <<now, product_service, plan_service, subscription, next_id,
                   log, plan_status, procs>>

\* a lookup of subscriber details; it changes nothing
GetSubscriberInfo ==
    /\ \E pe_id \in AllSubscribers :
          last' = [op |-> "get_subscriber_info", args |-> <<pe_id>>,
                   ret |-> get_subscriber_info(pe_id), exc |-> "",
                   trace |-> << >>, log0 |-> Len(log), error |-> None,
                   diag |-> << >>]
    /\ UNCHANGED <<now, service, adapter, product_service, plan_service,
                   subscription, next_id, log, plan_status, procs>>

\* registrations and subscriptions
Next ==
    \/ RegisterProduct
    \/ RegisterSubscriptionPlan(SomeToken, PlanArgs)
    \/ RegisterSubscription
    \/ CreateProductService
    \/ CreatePlanService
    \/ NewAdapter

Spec == Init /\ [][Next]_vars

\* product registrations only
NextProduct ==
    \/ RegisterProduct
    \/ CreateProductService
    \/ NewAdapter

SpecProduct == Init /\ [][NextProduct]_vars

\* subscriptions, with the plan registrations they rest on
NextSubscription ==
    \/ RegisterSubscriptionPlan(SomeToken, PlanArgs)
    \/ RegisterSubscription
    \/ CreatePlanService
    \/ NewAdapter

SpecSubscription == Init /\ [][NextSubscription]_vars

\* the life of the access token
NextToken ==
    \/ GetAccessToken(AnyToken)
    \/ GetUserInfo(AnyToken)
    \/ Tick

SpecToken == Init /\ [][NextToken]_vars

\* direct writes to the log
NextLog ==
    \/ WriteLog
    \/ Tick

SpecLog == Init /\ [][NextLog]_vars

\* record creations on the link tables, for services of any API type
NextHooks ==
    \/ CreateProductLink
    \/ CreatePlanLink

SpecHooks == InitFactory /\ [][NextHooks]_vars

\* validation of subscription plans
NextValidation ==
    \/ ValidatePlan
    \/ OnValidation

SpecValidation == Init /\ [][NextValidation]_vars

\* registrations over link tables with deleted rows
NextDeleted ==
    \/ CreateProductService
    \/ DeleteProductLink
    \/ DeletePlanLink
    \/ RegisterProduct
    \/ RegisterPlanAgain

SpecDeleted == Init /\ [][NextDeleted]_vars

\* requests in every auth mode
NextOpener ==
    \/ Http(FewTokens)
    \/ GetAccessToken(FewTokens)
    \/ Tick

SpecOpener == Init /\ [][NextOpener]_vars

\* requests with Token authentication, one or several in a call
NextRequest ==
    \/ GetUserInfo(AnyToken)
    \/ RegisterSubscriptionPlan(FewTokens, PlanArgs)
    \/ Tick

SpecRequest == Init /\ [][NextRequest]_vars

\* plan registrations, with the product registrations they rest on
NextPlan ==
    \/ RegisterSubscriptionPlan(SomeToken, AllPlans)
    \/ RegisterProduct
    \/ Tick

SpecPlan == Init /\ [][NextPlan]_vars

\* registrations and subscriptions of plans that are edited in between
NextPlanEdit ==
    \/ RegisterPlanAgain
    \/ Subscribe
    \/ DeactivatePlan

SpecPlanEdit == Init /\ [][NextPlanEdit]_vars

\* the adapter factory, called directly and by the link forms
NextFactory ==
    \/ Adapter
    \/ CreateProductService
    \/ Tick

SpecFactory == InitFactory /\ [][NextFactory]_vars

\* updates and retirements, next to registrations
NextUpdate ==
    \/ UpdateProduct
    \/ RetireProduct
    \/ UpdateSubscriptionPlan
    \/ RegisterProduct
    \/ RegisterSubscriptionPlan(Registering, PlanArgs)

SpecUpdate == Init /\ [][NextUpdate]_vars

\* two concurrent registrations of the same product
NextConcurrent ==
    \/ \E p \in Procs : Begin(p)
    \/ \E p \in Procs : CheckProduct(p)
    \/ \E p \in Procs : Opener(p)
    \/ \E p \in Procs : Fetch(p)
    \/ \E p \in Procs : StoreToken(p)
    \/ \E p \in Procs : SendProduct(p)
    \/ \E p \in Procs : LinkProduct(p)
    \/ (Tick /\ \E p \in Procs : procs[p].pc # "done")

SpecConcurrent == Init /\ [][NextConcurrent]_vars

\* every public operation of the adapter
NextPublic ==
    \/ GetAccessToken(Registering)
    \/ GetUserInfo(Registering)
    \/ RegisterProduct
    \/ UpdateProduct
    \/ RetireProduct
    \/ RegisterSubscriptionPlan(SomeToken, PlanArgs)
    \/ UpdateSubscriptionPlan
    \/ Subscribe
    \/ CheckSubscription

SpecPublic == Init /\ [][NextPublic]_vars

\* subscriber lookups, next to product registrations
NextLookup ==
    \/ GetSubscriberInfo
    \/ RegisterProduct
    \/ Tick

SpecLookup == Init /\ [][NextLookup]_vars

\* subscriptions and their status checks
NextStatus ==
    \/ Subscribe
    \/ CheckSubscription
    \/ Tick

SpecStatus == Init /\ [][NextStatus]_vars

\* every operation, on a service that has or has lost its base URL
NextConfig ==
    \/ GetAccessToken(Registering)
    \/ GetUserInfo(Registering)
    \/ RegisterProduct
    \/ RegisterSubscriptionPlan(Registering, PlanArgs)
    \/ Subscribe
    \/ CheckSubscription
    \/ ClearBaseUrl

SpecConfig == Init /\ [][NextConfig]_vars

----------------------------------------------------------------------------
(* Properties *)

\* the entries the last call appended to the log
Logged == SubSeq(log, last.log0 + 1, Len(log))

\* positions of the requests of a trace, and of those sent to a path
RequestsOf(tr) == {i \in DOMAIN tr : tr[i].ev = "request"}
RequestsTo(tr, path) == {i \in RequestsOf(tr) : tr[i].path = path}

\* rows of a link table for one product or plan and the service
ProductRows(product_id) ==
    {i \in DOMAIN product_service :
        /\ product_service[i].product_id = product_id
        /\ product_service[i].service_id = SERVICE_ID
        /\ ~product_service[i].deleted}
PlanRows(plan_id) ==
    {i \in DOMAIN plan_service :
        /\ plan_service[i].plan_id = plan_id
        /\ plan_service[i].service_id = SERVICE_ID
        /\ ~plan_service[i].deleted}

\* C1: a register_product call for a product that is already registered
\* with the service sends no request, goes through update_product (its INFO
\* entry is the only entry logged), returns True, and leaves the link table
\* as it was: no row is added, the reference number stays.
C1_IdempotentRegistration ==
    [][ (/\ last'.op = "register_product"
         /\ has_product(State(SomeToken), last'.args[1]))
        => /\ last'.trace = << >>
           /\ last'.exc = ""
           /\ last'.ret = TRUE
           /\ log' = Append(log, [date |-> now,
                                  service_id |-> SERVICE_ID,
                                  action |-> <<"Update product", last'.args[1]>>,
                                  result |-> "INFO",
                                  reason |-> <<"Not supported by API">>])
           /\ product_service' = product_service ]_vars

\* a second register_product call after a successful first one has returned
C1_Witness ==
    /\ last.op = "register_product"
    /\ last.exc = ""
    /\ last.ret = TRUE
    /\ last.trace = << >>
    /\ Cardinality(ProductRows(last.args[1])) = 1
    /\ \E i \in 1..last.log0 :
          /\ log[i].action = <<"Register Product", last.args[1]>>
          /\ log[i].result = "SUCCESS"

\* C2: at most one link row per (product, service) pair and at most one per
\* (plan, service) pair, in every state.
C2_OneRowPerPair ==
    /\ \A product_id \in ProductArgs : Cardinality(ProductRows(product_id)) <= 1
    /\ \A plan_id \in PlanArgs : Cardinality(PlanRows(plan_id)) <= 1

\* C3: a link row marked registered holds a non-empty reference number.
C3_RegisteredHasRefno ==
    /\ \A i \in DOMAIN product_service :
          product_service[i].is_registered => Truthy(product_service[i].refno)
    /\ \A i \in DOMAIN plan_service :
          plan_service[i].is_registered => Truthy(plan_service[i].refno)

\* requests with Token authentication in a trace
TokenRequests(tr) == {i \in RequestsOf(tr) : tr[i].auth = "Token"}

\* the calls of get_access_token the opener made for the Token request at i:
\* those since the Token request before it
FetchesFor(tr, i) ==
    {j \in 1..(i - 1) :
        /\ tr[j].ev = "get_access_token"
        /\ \A k \in TokenRequests(tr) : ~(j < k /\ k < i)}

\* a token request that the provider answered with a token
Fetched(tr, j) ==
    /\ j \in RequestsTo(tr, TOKEN_PATH)
    /\ tr[j].answer.class = "OK"
    /\ "access_token" \in DOMAIN tr[j].answer.body

\* C4: for every request with Token authentication, the opener calls
\* get_access_token exactly once if the token the instance holds is absent
\* or its expiry is set and not after the time of the request, and not at
\* all otherwise; the call sends at most one token request.  Once a token
\* request of a call was answered with a token, the later Token requests of
\* the same call send that token and fetch no other.
C4_TokenRefresh ==
    LET tr == last.trace
    IN  /\ \A i \in TokenRequests(tr) :
              LET stored == tr[i].stored
                  needed == \/ Falsy(stored.access_token)
                            \/ /\ stored.token_expiry_date # NoExpiry
                               /\ stored.token_expiry_date <= now
              IN  /\ Cardinality(FetchesFor(tr, i)) = IF needed THEN 1 ELSE 0
                  /\ Cardinality({j \in RequestsTo(tr, TOKEN_PATH) :
                                     \E f \in FetchesFor(tr, i) : f < j /\ j < i})
                        <= Cardinality(FetchesFor(tr, i))
        /\ \A j \in DOMAIN tr : \A i \in TokenRequests(tr) :
              (Fetched(tr, j) /\ j < i)
              => /\ tr[i].authorization # NoHeader
                 /\ tr[i].authorization[2] = tr[j].answer.body["access_token"]
                 /\ \A k \in (j + 1)..i : tr[k].ev # "get_access_token"

\* a call with two Token requests: the first one fetched a token, the
\* second one sent it again
C4_Witness ==
    \E i, j \in TokenRequests(last.trace) :
        /\ i < j
        /\ \E f \in FetchesFor(last.trace, i) : Fetched(last.trace, f + 1)
        /\ FetchesFor(last.trace, j) = {}
        /\ last.trace[j].authorization = last.trace[i].authorization

\* a request sent with a stored token that was still valid
C4_WitnessValid ==
    \E i \in TokenRequests(last.trace) :
        /\ last.trace[i].stored.token_expiry_date > now
        /\ FetchesFor(last.trace, i) = {}

\* the last token request of the last call that was answered with a token
LastFetched == 
    LET tr == last.trace
        fetched == {j \in DOMAIN tr : Fetched(tr, j)}
    IN  IF fetched = {} THEN 0
        ELSE CHOOSE j \in fetched : \A k \in fetched : k <= j

\* C5: after a successful token fetch the row of the service and the
\* instance hold the token of the response, its token type (Bearer when the
\* response names none) and the same expiry (none when the response has no
\* lifetime, the request time plus the lifetime when it has a positive
\* one); a SUCCESS entry is logged, and get_access_token returns the token.
C5_TokenStored ==
    LastFetched # 0 =>
        LET body == last.trace[LastFetched].answer.body
        IN  /\ adapter.access_token = body["access_token"]
            /\ service.access_token = body["access_token"]
            /\ adapter.token_type = IF "token_type" \in DOMAIN body
                                    THEN body["token_type"] ELSE "Bearer"
            /\ service.token_type = adapter.token_type
            /\ service.token_expiry_date = adapter.token_expiry_date
            /\ "expires_in" \notin DOMAIN body
                  => adapter.token_expiry_date = NoExpiry
            /\ ("expires_in" \in DOMAIN body /\ body["expires_in"] > 0)
                  => adapter.token_expiry_date = now + body["expires_in"]
            /\ \E i \in DOMAIN Logged :
                  /\ Logged[i].action = <<"Get Access Token">>
                  /\ Logged[i].result = "SUCCESS"
            /\ last.op = "get_access_token"
                  => /\ last.ret = body["access_token"]
                     /\ Len(Logged) = 1

\* get_access_token has returned a token with a token type and a lifetime
C5_Witness ==
    /\ last.op = "get_access_token"
    /\ last.ret = "t2"
    /\ service.token_type = "MAC"
    /\ service.token_expiry_date = now + 2

\* C6: after a successful token fetch the stored expiry is the request time
\* plus the lifetime of the response, for every lifetime; it is empty only
\* when the response has no lifetime.
C6_TokenExpiry ==
    LastFetched # 0 =>
        LET body == last.trace[LastFetched].answer.body
        IN  /\ "expires_in" \in DOMAIN body
                  => service.token_expiry_date = now + body["expires_in"]
            /\ service.token_expiry_date = NoExpiry
                  => "expires_in" \notin DOMAIN body

\* C7: a get_access_token call that returns no token logs one ERROR entry
\* and leaves the instance and the row of the service as they were; without
\* client id or secret it sends no request.  No step changes the token of
\* the instance or of the row unless a token request was answered with one.
C7_FailedFetch ==
    [][ /\ (last'.op = "get_access_token" /\ last'.ret = None)
           => /\ adapter' = adapter
              /\ service' = service
              /\ log' = Append(log, log'[Len(log')])
              /\ log'[Len(log')].action = <<"Get Access Token">>
              /\ log'[Len(log')].result = "ERROR"
              /\ (Falsy(adapter.username) \/ Falsy(adapter.password))
                    => last'.trace = << >>
        /\ (\A j \in DOMAIN last'.trace : ~Fetched(last'.trace, j))
           => /\ adapter' = adapter
              /\ service' = service ]_vars

\* a fetch has failed on an answer without access_token while the instance
\* held a token
C7_Witness ==
    /\ last.op = "get_access_token"
    /\ last.ret = None
    /\ Len(last.trace) = 1
    /\ RequestsOf(last.trace) = {1}
    /\ last.trace[1].answer.class = "OK"
    /\ Truthy(adapter.access_token)

\* the subscription-creation POST of the last call, 0 if it sent none
SubscriptionPost ==
    LET posts == RequestsTo(last.trace, SUBSCRIPTIONS_PATH)
    IN  IF last.op = "register_subscription" /\ posts # {}
        THEN CHOOSE i \in posts : TRUE ELSE 0

\* the id of the record register_subscription has inserted before the POST
\* (the POST carries it in its return URL)
PendingId == last.trace[SubscriptionPost].data.return_url[1]

\* C8: when the subscription-creation POST of register_subscription fails
\* with a network error, an HTTP error status or an undecodable body, the
\* record the call has inserted exists no more, the call returns no id and
\* raises nothing, and the last entry it has logged is an ERROR.
C8_RollbackOnFailure ==
    (/\ SubscriptionPost # 0
     /\ last.trace[SubscriptionPost].answer.class # "OK")
    => /\ \A r \in subscription : r.id # PendingId
       /\ last.ret = NoId
       /\ last.exc = ""
       /\ Logged # << >>
       /\ Logged[Len(Logged)].action = <<"Register subscription">> \o last.args
       /\ Logged[Len(Logged)].result = "ERROR"

\* the POST has met a network error after the call had inserted a record
C8_Witness ==
    /\ SubscriptionPost # 0
    /\ last.trace[SubscriptionPost].answer = NetError
    /\ PendingId = 1
    /\ next_id = 2
    /\ subscription = {}

\* C9: after a register_subscription call has ended, whatever the provider
\* has answered, every subscription record holds a non-empty reference.
C9_NoPendingRecords ==
    \A r \in subscription : Truthy(r.refno)

StatusRequest ==
    LET gets == {i \in RequestsOf(last.trace) :
                    last.trace[i].path \in StatusPaths}
    IN  IF last.op = "check_subscription" /\ gets # {}
        THEN CHOOSE i \in gets : TRUE ELSE 0

\* the calls of the onaccept callback in the last call
Callbacks == {i \in DOMAIN last.trace : last.trace[i].ev = "onaccept"}


\* the entries the last call has logged for its own action, by severity
Entries(results) ==
    {i \in DOMAIN Logged :
        /\ Logged[i].action = <<"Check subscription">> \o last.args
        /\ Logged[i].result \in results}

\* the record the last check_subscription call was about
Checked == {r \in subscription : r.id = last.args[1]}

\* C11: when the status request of check_subscription is answered with HTTP
\* 404, the status of the record is CANCELLED, the call has logged a WARNING
\* and no ERROR, has called the onaccept callback, and returns CANCELLED.
C11_NotFoundIsCancelled ==
    (/\ StatusRequest # 0
     /\ last.trace[StatusRequest].answer.class = "HTTPError"
     /\ last.trace[StatusRequest].answer.code = "404")
    => /\ last.exc = ""
       /\ last.ret = "CANCELLED"
       /\ \A r \in Checked : r.status = "CANCELLED"
       /\ Entries({"WARNING"}) # {}
       /\ Entries({"ERROR", "FATAL"}) = {}
       /\ Callbacks # {}

\* the last call was a status check that failed: the record does not exist,
\* or the request was answered with a network error, an HTTP error status
\* other than 404 or an undecodable body
CheckFailed ==
    /\ last.op = "check_subscription"
    /\ \/ /\ StatusRequest = 0
          /\ last.trace = << >>
       \/ /\ StatusRequest # 0
          /\ \/ last.trace[StatusRequest].answer.class
                   \in {"URLError", "Exception", "JSONERROR"}
             \/ /\ last.trace[StatusRequest].answer.class = "HTTPError"
                /\ last.trace[StatusRequest].answer.code # "404"

\* C12: a status check that fails returns no status and raises nothing, has
\* logged an ERROR, leaves the subscription records as they were and does
\* not call the onaccept callback.
C12_FailedCheck ==
    [][ CheckFailed'
        => /\ last'.ret = None
           /\ last'.exc = ""
           /\ Entries({"ERROR"})' # {}
           /\ subscription' = subscription
           /\ Callbacks' = {} ]_vars

\* the last call was a status check whose request was answered with a
\* decoded body or with HTTP 404
CheckResolved ==
    /\ StatusRequest # 0
    /\ \/ last.trace[StatusRequest].answer.class = "OK"
       \/ /\ last.trace[StatusRequest].answer.class = "HTTPError"
          /\ last.trace[StatusRequest].answer.code = "404"

\* C13: a status check that resolves a status (an answer with a status,
\* without one, or HTTP 404) calls the onaccept callback exactly once, after
\* the update: the callback gets the status the call returns and finds the
\* record with that status and the status date; an empty status comes with
\* a WARNING.
C13_UpdateThenCallback ==
    CheckResolved
    => /\ last.exc = ""
       /\ Cardinality(Callbacks) = 1
       /\ \A i \in Callbacks :
             /\ i > StatusRequest
             /\ last.trace[i].data.status = last.ret
             /\ last.trace[i].data.id = last.args[1]
             /\ \A r \in last.trace[i].found :
                   r.status = last.ret /\ r.status_date = now
             /\ last.trace[i].found = Checked
       /\ Checked # {}
       /\ last.ret = None => Entries({"WARNING"}) # {}

\* the plan-creation POSTs of the last register_subscription_plan call
PlanPosts ==
    IF last.op = "register_subscription_plan"
    THEN RequestsTo(last.trace, PLANS_PATH) ELSE {}

\* C14: the plan-creation POST carries as total_cycles the stored number of
\* cycles of the plan when the plan is fixed-term, and 0 when it is not,
\* whatever number is stored.
C14_TotalCycles ==
    \A i \in PlanPosts :
        LET plan == fin_subscription_plan[last.args[1]]
        IN  /\ plan.fixed => last.trace[i].data.total_cycles = plan.total_cycles
            /\ ~plan.fixed => last.trace[i].data.total_cycles = 0

\* a plan that is not fixed-term and has 6 cycles stored was sent with 0
C14_Witness ==
    \E i \in PlanPosts :
        /\ last.args[1] = 3
        /\ fin_subscription_plan[3].total_cycles = 6
        /\ last.trace[i].data.total_cycles = 0

\* a fixed-term plan was sent with its 12 cycles
C14_WitnessFixed ==
    \E i \in PlanPosts :
        /\ last.args[1] = 1
        /\ last.trace[i].data.total_cycles = 12

\* the product-creation POSTs of the last register_subscription_plan call
ProductPosts ==
    IF last.op = "register_subscription_plan"
    THEN RequestsTo(last.trace, PRODUCTS_PATH) ELSE {}

\* positions in the log of the last call of the entries with a result
LoggedAs(result) == {i \in DOMAIN Logged : Logged[i].result = result}

\* the last call was register_subscription_plan on a service with valid
\* credentials and no stored token (its first request found no token and
\* fetched one), for a plan whose product was not registered and whose
\* product-creation POST was answered with an id
Scenario ==
    /\ last.op = "register_subscription_plan"
    /\ \E i \in TokenRequests(last.trace) :
          /\ \A j \in TokenRequests(last.trace) : i <= j
          /\ Falsy(last.trace[i].stored.access_token)
          /\ \E f \in FetchesFor(last.trace, i) : Fetched(last.trace, f + 1)
    /\ ProductPosts # {}
    /\ \A i \in ProductPosts :
          /\ last.trace[i].answer.class = "OK"
          /\ "id" \in DOMAIN last.trace[i].answer.body
          /\ Truthy(last.trace[i].answer.body["id"])

\* the scenario, where the plan-creation POST is answered with an id too
ScenarioSuccess ==
    /\ Scenario
    /\ \A i \in PlanPosts :
          /\ last.trace[i].answer.class = "OK"
          /\ "id" \in DOMAIN last.trace[i].answer.body

\* what the scenario does but for the log: one product-creation POST, then
\* one plan-creation POST, the link rows of the product and of the plan
\* registered with the ids of the answers, the call returns True
ScenarioRegisters ==
    /\ Cardinality(ProductPosts) = 1
    /\ Cardinality(PlanPosts) = 1
    /\ \A i \in ProductPosts : \A j \in PlanPosts :
          /\ i < j
          /\ \E k \in ProductRows(fin_subscription_plan[last.args[1]].product_id) :
                /\ product_service[k].is_registered
                /\ product_service[k].refno = last.trace[i].answer.body["id"]
          /\ \E k \in PlanRows(last.args[1]) :
                /\ plan_service[k].is_registered
                /\ plan_service[k].refno = last.trace[j].answer.body["id"]
          /\ last.trace[j].data.product_id = last.trace[i].answer.body["id"]
    /\ last.exc = ""
    /\ last.ret = TRUE

\* C15 as stated: in the scenario with successful answers the call sends
\* the product-creation POST, then the plan-creation POST, upserts both
\* links, returns True, and writes two SUCCESS entries.
C15_TwoSuccessEntries ==
    ScenarioSuccess
    => /\ ScenarioRegisters
       /\ Cardinality(LoggedAs("SUCCESS")) = 2

\* C15, amended: in the scenario with successful answers the call sends
\* the product-creation POST, then the plan-creation POST, upserts both
\* links, returns True, and writes three SUCCESS entries and no other: one
\* for the token fetch, one for the product, one for the plan.
C15_EndToEndSuccess ==
    ScenarioSuccess
    => /\ ScenarioRegisters
       /\ Len(Logged) = 3
       /\ LoggedAs("SUCCESS") = {1, 2, 3}
       /\ Logged[1].action = <<"Get Access Token">>
       /\ Logged[2].action =
              <<"Register Product", fin_subscription_plan[last.args[1]].product_id>>
       /\ Logged[3].action = <<"Register subscription plan", last.args[1]>>

\* the scenario has run to its end for plan 1
C15_Witness ==
    /\ ScenarioSuccess
    /\ last.args = <<1>>
    /\ last.ret = TRUE
    /\ PlanRows(1) # {}

\* C16: in the scenario, when the plan-creation POST is answered with HTTP
\* 422, the product link is registered and its SUCCESS is logged, no link
\* of the plan is registered, exactly one ERROR entry is written, which
\* carries the status code and the body of the answer, and the call
\* returns False.
C16_PartialFailure ==
    (/\ Scenario
     /\ \E j \in PlanPosts :
           /\ last.trace[j].answer.class = "HTTPError"
           /\ last.trace[j].answer.code = "422")
    => /\ \A i \in ProductPosts :
             \E k \in ProductRows(fin_subscription_plan[last.args[1]].product_id) :
                /\ product_service[k].is_registered
                /\ product_service[k].refno = last.trace[i].answer.body["id"]
       /\ \E i \in LoggedAs("SUCCESS") :
             Logged[i].action =
                <<"Register Product", fin_subscription_plan[last.args[1]].product_id>>
       /\ \A k \in PlanRows(last.args[1]) : ~plan_service[k].is_registered
       /\ Cardinality(LoggedAs("ERROR")) = 1
       /\ \A i \in LoggedAs("ERROR") : \A j \in PlanPosts :
             /\ Logged[i].action = <<"Register subscription plan", last.args[1]>>
             /\ Logged[i].reason =
                   <<last.trace[j].answer.code, last.trace[j].answer.body>>
       /\ last.exc = ""
       /\ last.ret = FALSE

\* C17: the PayPal structure of a subscriber is made from the generic info
\* {first_name, last_name if any, email if any}: name.given_name is the
\* first name, name.surname the last name and there only if the info has a
\* last name, email_address the email and there only if the info has an
\* email; an error of the lookup is passed on with no info.
C17_SubscriberMapping ==
    last.op = "get_subscriber_info" =>
        LET generic == S3PaymentService_get_subscriber_info(last.args[1])
            paypal == last.ret
        IN  IF Truthy(generic.error) THEN
                /\ paypal.info = NoneBody
                /\ paypal.error = generic.error
            ELSE
                /\ paypal.error = None
                /\ DOMAIN paypal.info \subseteq {"name", "email_address"}
                /\ DOMAIN paypal.info.name \subseteq {"given_name", "surname"}
                /\ paypal.info.name.given_name = generic.info.first_name
                /\ "surname" \in DOMAIN paypal.info.name
                      <=> "last_name" \in DOMAIN generic.info
                /\ "last_name" \in DOMAIN generic.info
                      => paypal.info.name.surname = generic.info.last_name
                /\ "email_address" \in DOMAIN paypal.info
                      <=> "email" \in DOMAIN generic.info
                /\ "email" \in DOMAIN generic.info
                      => paypal.info.email_address = generic.info.email

\* the lookup of Jane Doe has given the structure with both names and the
\* email address
C17_Witness ==
    /\ last.op = "get_subscriber_info"
    /\ last.ret.info = [name |-> [given_name |-> "Jane", surname |-> "Doe"],
                        email_address |-> "jane@example.org"]

\* the lookup of an organisation has given a structure without surname
C17_WitnessNoSurname ==
    /\ last.op = "get_subscriber_info"
    /\ last.ret.info = [name |-> [given_name |-> "ACME"],
                        email_address |-> "office@example.org"]

\* the lookup of a group has given an error and no info
C17_WitnessError ==
    /\ last.op = "get_subscriber_info"
    /\ last.ret = [info |-> NoneBody, error |-> "Invalid subscriber type"]

FailureSignal ==
    /\ last.exc = ""
    /\ \/ /\ last.op \in {"register_product", "register_subscription_plan"}
          /\ last.ret = FALSE
       \/ /\ last.op = "register_subscription"
          /\ last.ret = NoId
       \/ /\ CheckFailed
          /\ last.ret = None
       \/ /\ last.op = "get_access_token"
          /\ last.ret = None
       \/ /\ last.op = "get_user_info"
          /\ last.ret = NoneBody

\* C19: an operation that returns its failure signal has logged at least one
\* entry of severity ERROR or FATAL during the call.
C19_FailureLogged ==
    FailureSignal => LoggedAs("ERROR") \cup LoggedAs("FATAL") # {}

\* the http calls of the last call: the requests sent and the calls refused
\* for want of a base URL
HttpCalls == {i \in DOMAIN last.trace : last.trace[i].ev \in {"request", "no_base_url"}}

\* C20: http returns (payload, status, error) in one of these shapes: for a
\* network failure no payload, no status, a non-empty error; for an HTTP
\* error status no payload, the status code, the body of the response as
\* error; for a success the decoded payload, the status, no error; for a
\* body that cannot be decoded no payload and a non-empty error.  A
\* non-empty error always comes with no payload.
C20_TransportClassification ==
    \A i \in HttpCalls :
        LET result == last.trace[i].result
        IN  /\ Truthy(result.error) => result.output = NoneBody
            /\ last.trace[i].ev = "no_base_url"
                  => /\ result.output = NoneBody
                     /\ result.status = NoStatus
                     /\ Truthy(result.error)
            /\ last.trace[i].ev = "request" =>
                  LET answer == last.trace[i].answer
                  IN  /\ answer.class = "URLError"
                            => /\ result.output = NoneBody
                               /\ result.status = NoStatus
                               /\ Truthy(result.error)
                               /\ Truthy(answer.reason)
                                     => result.error = answer.reason
                      /\ answer.class = "Exception"
                            => /\ result.output = NoneBody
                               /\ result.status = NoStatus
                               /\ Truthy(result.error)
                      /\ answer.class = "HTTPError"
                            => /\ result.output = NoneBody
                               /\ result.status = answer.code
                               /\ result.error = answer.body
                      /\ answer.class = "JSONERROR"
                            => /\ result.output = NoneBody
                               /\ Truthy(result.error)
                      /\ answer.class = "OK"
                            => /\ result.output = answer.body
                               /\ result.status = answer.code
                               /\ result.error = None

\* a status request was answered with a body that cannot be decoded
C20_Witness ==
    /\ StatusRequest # 0
    /\ last.trace[StatusRequest].answer = BadJson
    /\ last.trace[StatusRequest].result.status = "200"
    /\ Truthy(last.trace[StatusRequest].result.error)

\* a status request met a network error without a reason
C20_WitnessNoReason ==
    /\ StatusRequest # 0
    /\ last.trace[StatusRequest].answer = URLError("")
    /\ last.trace[StatusRequest].result.error = "Unknown network error"

\* the operations of the adapter that call http
HttpOperations ==
    {"get_access_token", "get_user_info", "register_product",
     "register_subscription_plan", "register_subscription",
     "check_subscription"}

\* the value with which an operation signals its failure
FailureOf(op) ==
    CASE op \in {"register_product", "register_subscription_plan"} -> FALSE
      [] op = "register_subscription" -> NoId
      [] op = "get_user_info" -> NoneBody
      [] OTHER -> None

\* C21: on a service without base URL every http call returns at once with
\* no payload, no status and a configuration error, sends no request and
\* fetches no token; every operation that called http returns its failure
\* signal, and the link records, the subscriptions and the token of the
\* instance and of the service row stay as they were.
C21_NoBaseUrl ==
    [][ (Falsy(adapter.base_url) /\ last'.op \in HttpOperations)
        => /\ \A i \in DOMAIN last'.trace :
                 /\ last'.trace[i].ev = "no_base_url"
                 /\ last'.trace[i].result =
                       [output |-> NoneBody, status |-> NoStatus,
                        error |-> "No base URL set"]
           /\ last'.trace # << >>
                => (last'.exc = "" /\ last'.ret = FailureOf(last'.op))
           /\ product_service' = product_service
           /\ plan_service' = plan_service
           /\ subscription' = subscription
           /\ adapter' = adapter
           /\ service' = service ]_vars

\* the status check of an existing subscription was refused for want of a
\* base URL
C21_Witness ==
    /\ Falsy(adapter.base_url)
    /\ last.op = "check_subscription"
    /\ Checked # {}
    /\ last.trace # << >>
    /\ last.trace[1].ev = "no_base_url"

\* the registration of a plan was refused at the registration of its product
C21_WitnessPlan ==
    /\ Falsy(adapter.base_url)
    /\ last.op = "register_subscription_plan"
    /\ last.trace # << >>
    /\ last.trace[1].ev = "no_base_url"
    /\ Len(Logged) = 2

\* the requests of the last call, as events of its trace
Requests == {last.trace[i] : i \in RequestsOf(last.trace)}

Credentials == Truthy(adapter.username) /\ Truthy(adapter.password)

\* C22: a request carries the 401 fallback handler exactly when the instance
\* has a username and a password and the auth mode of the request is a true
\* value (Basic, Token or another); a request with auth False carries none.
C22_Handler401 ==
    \A e \in Requests : e.handler401 <=> (Credentials /\ e.auth # "")

\* C22 as stated: with a username and a password every request carries the
\* handler, whatever its auth mode
C22_HandlerAlways ==
    \A e \in Requests : Credentials => e.handler401

\* a request without authentication on an instance with credentials
C22_Witness ==
    /\ last.op = "http"
    /\ Credentials
    /\ \E e \in Requests : e.auth = "" /\ ~e.handler401

\* a Token request and its token request both carry the handler
C22_WitnessToken ==
    /\ last.op = "http"
    /\ \E e \in Requests : e.auth = "Token" /\ e.handler401
    /\ \E e \in Requests : e.auth = "Basic" /\ e.handler401

\* the plan of the call is registered with the service
PlanRegistered(plan_id) ==
    \E k \in PlanRows(plan_id) : plan_service[k].is_registered

\* the plan of the call is missing, or not ACTIVE, or the link of its
\* product is registered without reference number
PlanPrecondition ==
    LET plan_id == last.args[1]
    IN  \/ plan_id \notin DOMAIN fin_subscription_plan
        \/ plan_status[plan_id] # "ACTIVE"
        \/ \E k \in ProductRows(fin_subscription_plan[plan_id].product_id) :
              /\ product_service[k].is_registered
              /\ Falsy(product_service[k].refno)

\* the call logged an ERROR for the plan, returned false and sent no plan
PlanAborted ==
    /\ last.exc = ""
    /\ last.ret = FALSE
    /\ \E i \in LoggedAs("ERROR") :
          Logged[i].action = <<"Register subscription plan">> \o last.args
    /\ RequestsTo(last.trace, PLANS_PATH) = {}

\* register_subscription was called for a missing or INACTIVE plan
SubscribedUnavailable ==
    /\ last.op = "register_subscription"
    /\ \/ last.args[1] \notin DOMAIN fin_subscription_plan
       \/ plan_status[last.args[1]] = "INACTIVE"

\* C23: register_subscription_plan for a plan that is not registered with
\* the service and is missing or not ACTIVE, or whose product link holds no
\* reference number, logs an ERROR, returns false and sends no plan POST;
\* register_subscription for a missing or INACTIVE plan sends no request.
C23_LocalPrecondition ==
    [][ /\ ( /\ last'.op = "register_subscription_plan"
             /\ ~PlanRegistered(last'.args[1])
             /\ PlanPrecondition' )
           => PlanAborted'
        /\ SubscribedUnavailable' => last'.trace = << >> ]_vars

\* C23 as stated: also for a plan that is registered with the service
C23_AbortsAlways ==
    [][ /\ ( /\ last'.op = "register_subscription_plan"
             /\ PlanPrecondition' )
           => PlanAborted'
        /\ SubscribedUnavailable' => last'.trace = << >> ]_vars

\* a plan set INACTIVE before its registration is refused
C23_Witness ==
    /\ last.op = "register_subscription_plan"
    /\ last.args[1] = 1
    /\ plan_status[1] = "INACTIVE"
    /\ PlanAborted

\* a plan is refused for the empty reference number of its product
C23_WitnessRefno ==
    /\ last.op = "register_subscription_plan"
    /\ last.args[1] \in DOMAIN plan_status
    /\ plan_status[last.args[1]] = "ACTIVE"
    /\ PlanAborted
    /\ \E i \in LoggedAs("ERROR") :
          Logged[i].reason = <<"Product reference number missing">>

\* a subscription to a plan set INACTIVE after its registration is refused
C23_WitnessSubscription ==
    /\ SubscribedUnavailable
    /\ PlanRegistered(last.args[1])
    /\ last.ret = NoId
    /\ LoggedAs("FATAL") # {}

\* a registered plan set INACTIVE is passed to the update
C23_WitnessUpdate ==
    /\ last.op = "register_subscription_plan"
    /\ last.args[1] \in DOMAIN plan_status
    /\ plan_status[last.args[1]] = "INACTIVE"
    /\ PlanRegistered(last.args[1])
    /\ last.ret = TRUE

\* the subscription POST of the last call, as set of trace positions
SubscriptionPosts ==
    IF last.op = "register_subscription"
    THEN RequestsTo(last.trace, SUBSCRIPTIONS_PATH) ELSE {}

\* a precondition of the last register_subscription call failed: the plan
\* is missing or INACTIVE, or is not registered after the call, or the
\* subscriber lookup gives an error
SubscriptionPrecondition ==
    \/ SubscribedUnavailable
    \/ ~PlanRegistered(last.args[1])
    \/ Truthy(get_subscriber_info(last.args[2]).error)

\* C24: when the plan is missing or inactive, cannot be registered, or the
\* subscriber lookup fails, register_subscription logs FATAL, returns no
\* id, creates no record and sends no subscription POST; otherwise the
\* record is inserted before the POST, which carries its id.
C24_InsertAfterPreconditions ==
    [][ last'.op = "register_subscription"
        => IF SubscriptionPrecondition'
           THEN /\ last'.exc = ""
                /\ last'.ret = NoId
                /\ LoggedAs("FATAL")' # {}
                /\ subscription' = subscription
                /\ next_id' = next_id
                /\ SubscriptionPosts' = {}
           ELSE /\ next_id' = next_id + 1
                /\ Cardinality(SubscriptionPosts') = 1
                /\ \A i \in SubscriptionPosts' :
                      last'.trace[i].data.return_url[1] = next_id ]_vars

\* the lookup of the subscriber failed after the plan was registered
C24_Witness ==
    /\ last.op = "register_subscription"
    /\ PlanRegistered(last.args[1])
    /\ Truthy(get_subscriber_info(last.args[2]).error)
    /\ LoggedAs("FATAL") # {}
    /\ last.ret = NoId

\* the record was inserted and the POST sent with its id
C24_WitnessPost ==
    /\ SubscriptionPosts # {}
    /\ last.ret # NoId
    /\ \E r \in subscription : r.id = last.ret /\ r.id = PendingId

\* C25: the factory raises a not-found error for a missing service record
\* and an invalid-type error for an unknown API type, in both cases without
\* an instance, a log entry or a request; for a PAYPAL service it returns a
\* PayPal adapter bound to the service id and configured from the row.
C25_Factory ==
    [][ last'.op = "adapter"
        => /\ last'.trace = << >>
           /\ log' = log
           /\ IF last'.args[1] # service.id THEN
                  /\ last'.exc = "KeyError"
                  /\ last'.ret = None
                  /\ adapter' = adapter
              ELSE IF service.api_type # "PAYPAL" THEN
                  /\ last'.exc = "ValueError"
                  /\ last'.ret = None
                  /\ adapter' = adapter
              ELSE
                  /\ last'.exc = ""
                  /\ last'.ret = "PayPalAdapter"
                  /\ adapter'.service_id = last'.args[1]
                  /\ adapter' = S3PaymentService_init(service) ]_vars

\* the factory refused a service of unknown type
C25_Witness ==
    /\ last.op = "adapter"
    /\ last.exc = "ValueError"
    /\ service.api_type = "OTHER"

\* the factory found no record
C25_WitnessMissing ==
    /\ last.op = "adapter"
    /\ last.exc = "KeyError"
    /\ last.args = <<"s9">>

\* the factory returned a PayPal adapter with the token of the row
C25_WitnessPayPal ==
    /\ last.op = "adapter"
    /\ last.ret = "PayPalAdapter"
    /\ adapter.service_id = SERVICE_ID
    /\ Truthy(adapter.access_token)

\* the operations without an implementation on the provider's side
Stubs == {"update_product", "retire_product", "update_subscription_plan"}

\* C26: update_product, retire_product and update_subscription_plan return
\* success, write exactly one log entry, of result INFO, send no request
\* and change no link record, no subscription and no token.
C26_Stubs ==
    [][ last'.op \in Stubs
        => /\ last'.ret = TRUE
           /\ last'.exc = ""
           /\ last'.trace = << >>
           /\ Len(log') = Len(log) + 1
           /\ SubSeq(log', 1, Len(log)) = log
           /\ log'[Len(log')].result = "INFO"
           /\ log'[Len(log')].service_id = adapter.service_id
           /\ product_service' = product_service
           /\ plan_service' = plan_service
           /\ subscription' = subscription
           /\ adapter' = adapter
           /\ service' = service ]_vars

\* an update of a registered product
C26_Witness ==
    /\ last.op = "update_product"
    /\ \E k \in ProductRows(last.args[1]) : product_service[k].is_registered
    /\ Len(Logged) = 1
    /\ Logged[1].result = "INFO"

\* a retirement of a product
C26_WitnessRetire ==
    /\ last.op = "retire_product"
    /\ Logged[1].action = <<"Retire product">> \o last.args

\* C27: the existence check of register_product depends on the link table
\* alone, never on a registration in progress: a request whose check finds
\* no registered link goes on to the POST, and every request that reaches
\* the POST sends it; so when both checks precede both link writes, both
\* requests send a product POST.
C27_NotSerialized ==
    [][ \A p \in Procs :
          /\ (procs[p].pc = "check" /\ procs'[p].pc # "check")
                => (procs'[p].pc = "opener"
                      <=> ~has_product(StateOf(p), RacedProduct))
          /\ (procs[p].pc = "send" /\ procs'[p].pc # "send")
                => (procs'[p].pc = "link" /\ procs'[p].posted) ]_vars

\* both requests passed the check before a link was written, and both
\* sent their POST: the provider created the product twice
C27_Witness ==
    /\ \A p \in Procs : procs[p].posted /\ procs[p].pc = "link"
    /\ \A p \in Procs : procs[p].response.status = "200"
    /\ ProductRows(RacedProduct) = {}

\* both registrations ended with success, the link holds the reference
\* number of one of the two products created
C27_WitnessDone ==
    /\ \A p \in Procs : procs[p].posted /\ procs[p].pc = "done"
                          /\ procs[p].success
    /\ procs[1].response.output # procs[2].response.output
    /\ Cardinality(ProductRows(RacedProduct)) = 1

\* the requests that wrote a token to the service row
Stored == {p \in Procs : procs[p].store_no > 0}

\* the request whose update of the service row came last
LastStored ==
    CHOOSE p \in Stored : \A q \in Stored : procs[q].store_no <= procs[p].store_no

\* token, type and expiry of the service row
RowTriad ==
    [access_token |-> service.access_token,
     token_type |-> service.token_type,
     token_expiry_date |-> service.token_expiry_date]

\* token, type and expiry of the token response of request p
TriadOf(p) ==
    LET c == procs[p].credentials
    IN  [access_token |-> c["access_token"],
         token_type |-> IF "token_type" \in DOMAIN c THEN c["token_type"]
                        ELSE "Bearer",
         token_expiry_date |-> token_expiry(procs[p].now0, c)]

\* C28: the token, type and expiry of the service row are those of one
\* token response, the one of the request that updated the row last (none
\* before the first update); a request that fetched a token sends this
\* token in its POST, whatever the row holds by then.
C28_LastWriteWins ==
    /\ IF Stored = {}
       THEN RowTriad = [access_token |-> None, token_type |-> None,
                        token_expiry_date |-> NoExpiry]
       ELSE RowTriad = TriadOf(LastStored)
    /\ \A p \in Procs :
          (procs[p].fetched /\ procs[p].pc \in {"send", "link", "done"})
             => /\ procs[p].header # NoHeader
                /\ procs[p].header[2] = procs[p].credentials["access_token"]

\* both requests found no token and fetched one; the row holds the triad
\* of the second update, the first request sent the other token
C28_Witness ==
    /\ \A p \in Procs : procs[p].fetched /\ procs[p].posted
    /\ \A p \in Procs : procs[p].stored.access_token = None
    /\ procs[1].store_no = 1
    /\ procs[2].store_no = 2
    /\ procs[1].credentials["access_token"] = "t2"
    /\ RowTriad = [access_token |-> "t1", token_type |-> "Bearer",
                   token_expiry_date |-> procs[2].now0 + 1]
    /\ procs[1].header[2] = "t2"

\* a registered link of the product with the service
ProductRegistered(product_id, service_id) ==
    \E k \in DOMAIN product_service :
        /\ product_service[k].product_id = product_id
        /\ product_service[k].service_id = service_id
        /\ ~product_service[k].deleted
        /\ product_service[k].is_registered

\* a registered link of the plan with the service
PlanRegisteredWith(plan_id, service_id) ==
    \E k \in DOMAIN plan_service :
        /\ plan_service[k].plan_id = plan_id
        /\ plan_service[k].service_id = service_id
        /\ ~plan_service[k].deleted
        /\ plan_service[k].is_registered

\* C29: a plan POST carries the reference number of a registered link of
\* the product, which is not empty; a subscription POST carries the
\* reference number of a registered link of the plan; every registered plan
\* link has a registered link of its product with the same service, and
\* every subscription with a reference a registered link of its plan.
C29_DependencyOrder ==
    /\ \A i \in RequestsTo(last.trace, PLANS_PATH) :
          /\ Truthy(last.trace[i].data.product_id)
          /\ \E k \in DOMAIN product_service :
                /\ product_service[k].is_registered
                /\ product_service[k].service_id = adapter.service_id
                /\ product_service[k].refno = last.trace[i].data.product_id
    /\ \A i \in RequestsTo(last.trace, SUBSCRIPTIONS_PATH) :
          \E k \in DOMAIN plan_service :
                /\ plan_service[k].is_registered
                /\ plan_service[k].service_id = adapter.service_id
                /\ plan_service[k].plan_id = last.args[1]
                /\ plan_service[k].refno = last.trace[i].data.plan_id
    /\ \A k \in DOMAIN plan_service :
          (plan_service[k].is_registered /\ ~plan_service[k].deleted)
             => ProductRegistered(
                    fin_subscription_plan[plan_service[k].plan_id].product_id,
                    plan_service[k].service_id)
    /\ \A r \in subscription :
          Truthy(r.refno) => PlanRegisteredWith(r.plan_id, r.service_id)

\* a subscription with a reference, made in one call from nothing: product
\* POST, plan POST and subscription POST in this order
C29_Witness ==
    /\ last.op = "register_subscription"
    /\ \E r \in subscription : Truthy(r.refno) /\ r.id = last.ret
    /\ \E i \in RequestsTo(last.trace, PRODUCTS_PATH),
          j \in RequestsTo(last.trace, PLANS_PATH),
          k \in RequestsTo(last.trace, SUBSCRIPTIONS_PATH) : i < j /\ j < k

\* the token request the opener made for the Token request at i was
\* answered with a token
FetchedFor(tr, i) ==
    \E f \in FetchesFor(tr, i) :
        \E j \in (f + 1)..(i - 1) : Fetched(tr, j)

\* the expiry of the token the Token request at i can send: the one of the
\* token response, or the one the instance held
ExpiryFor(tr, i) ==
    IF FetchedFor(tr, i)
    THEN LET j == CHOOSE k \in 1..(i - 1) :
                      Fetched(tr, k) /\ \E f \in FetchesFor(tr, i) : f < k
         IN  token_expiry(now, tr[j].answer.body)
    ELSE tr[i].stored.token_expiry_date

\* C30: every call of get_access_token by the opener is followed by the
\* request it was made for; when the call gave no token (the fetch failed,
\* or the class has no token request) the request carries no Authorization
\* header; a request with an Authorization header carries a token without
\* expiry or with an expiry after the time of the request.
C30_NoTokenNoHeader ==
    LET tr == last.trace
    IN  /\ \A j \in DOMAIN tr :
              tr[j].ev = "get_access_token"
                 => \E i \in TokenRequests(tr) : j \in FetchesFor(tr, i)
        /\ \A i \in TokenRequests(tr) :
              /\ (FetchesFor(tr, i) # {} /\ ~FetchedFor(tr, i))
                    => tr[i].authorization = NoHeader
              /\ tr[i].authorization # NoHeader
                    => \/ ExpiryFor(tr, i) = NoExpiry
                       \/ ExpiryFor(tr, i) > now

\* the fetch failed and the request went out without header
C30_Witness ==
    /\ last.op = "http"
    /\ last.args = <<"Token", "PayPalAdapter">>
    /\ \E i \in TokenRequests(last.trace) :
          /\ \E j \in RequestsTo(last.trace, TOKEN_PATH) :
                j < i /\ last.trace[j].answer = NetError
          /\ last.trace[i].authorization = NoHeader

\* an instance of the base class sent the request without header
C30_WitnessUnsupported ==
    /\ last.op = "http"
    /\ last.args = <<"Token", "S3PaymentService">>
    /\ RequestsTo(last.trace, TOKEN_PATH) = {}
    /\ \E i \in TokenRequests(last.trace) :
          /\ FetchesFor(last.trace, i) # {}
          /\ last.trace[i].authorization = NoHeader

\* an expired token was replaced before the request
C30_WitnessExpired ==
    /\ last.op = "http"
    /\ \E i \in TokenRequests(last.trace) :
          /\ Truthy(last.trace[i].stored.access_token)
          /\ last.trace[i].stored.token_expiry_date # NoExpiry
          /\ last.trace[i].stored.token_expiry_date <= now
          /\ FetchedFor(last.trace, i)
          /\ last.trace[i].authorization # NoHeader

\* the token type of the token response the opener fetched for the Token
\* request at i, Bearer when the response names none
TypeFetchedFor(tr, i) ==
    LET j == CHOOSE k \in 1..(i - 1) :
                 Fetched(tr, k) /\ \E f \in FetchesFor(tr, i) : f < k
        body == tr[j].answer.body
    IN  IF "token_type" \in DOMAIN body THEN body["token_type"] ELSE "Bearer"

\* C31: the Authorization header of a Token request carries the token type
\* stored with the token it sends: after a refresh the type of the token
\* response, without one the type the instance holds.
C31_HeaderType ==
    \A i \in TokenRequests(last.trace) :
        last.trace[i].authorization # NoHeader
           => /\ FetchedFor(last.trace, i)
                    => last.trace[i].authorization[1]
                          = TypeFetchedFor(last.trace, i)
              /\ last.trace[i].authorization[1] = adapter.token_type

\* a request that refreshed the token sent the type read before the refresh
C31_WitnessStale ==
    /\ last.op = "get_user_info"
    /\ \E i \in TokenRequests(last.trace) :
          /\ FetchedFor(last.trace, i)
          /\ last.trace[i].authorization = <<"Bearer", "t2">>
          /\ adapter.token_type = "MAC"
          /\ service.token_type = "MAC"
          /\ service.access_token = "t2"

\* the configuration an instance or a service row holds, the token aside
ConfigOf(r) ==
    [base_url |-> r.base_url, use_proxy |-> r.use_proxy, proxy |-> r.proxy,
     username |-> r.username, password |-> r.password]

\* token, type and expiry an instance or a service row holds
TokenOf(r) ==
    [access_token |-> r.access_token, token_type |-> r.token_type,
     token_expiry_date |-> r.token_expiry_date]

\* C32: no adapter operation changes the service id, base URL, proxy
\* settings, username or password of the instance or of the service row;
\* the token, its type and its expiry change only in a call in which a
\* token request was answered with a token.
C32_ConfigImmutable ==
    [][ last'.op # "none"
        => /\ adapter'.service_id = adapter.service_id
           /\ ConfigOf(adapter') = ConfigOf(adapter)
           /\ service'.id = service.id
           /\ service'.api_type = service.api_type
           /\ ConfigOf(service') = ConfigOf(service)
           /\ (TokenOf(adapter') # TokenOf(adapter)
                  \/ TokenOf(service') # TokenOf(service))
                => \E j \in DOMAIN last'.trace : Fetched(last'.trace, j) ]_vars

\* a plan registration fetched a token: the token changed, the rest did not
C32_Witness ==
    /\ last.op = "register_subscription_plan"
    /\ \E j \in DOMAIN last.trace : Fetched(last.trace, j)
    /\ TokenOf(adapter) = TokenOf(service)
    /\ adapter.access_token = "t1"
    /\ adapter.username = "client-id"
    /\ adapter.base_url = service.base_url

\* the public operations of an adapter
PublicOperations == HttpOperations \cup Stubs

\* C33: every call of a public operation that returns has appended at
\* least one log entry, and every entry it appended carries the service id
\* of the adapter.
C33_AlwaysLogged ==
    [][ (last'.op \in PublicOperations /\ last'.exc = "")
        => /\ Len(log') > Len(log)
           /\ SubSeq(log', 1, Len(log)) = log
           /\ \A i \in (Len(log) + 1)..Len(log') :
                 log'[i].service_id = adapter.service_id ]_vars

\* a status check of a missing subscription returned with one ERROR entry
C33_Witness ==
    /\ last.op = "check_subscription"
    /\ last.exc = ""
    /\ last.ret = None
    /\ last.trace = << >>
    /\ Len(Logged) = 1
    /\ Logged[1].result = "ERROR"

\* C34: a log write with an empty action or an empty result appends
\* nothing and reports nothing; every other write appends exactly one
\* entry, with the service id of the adapter and the action, result and
\* reason passed, and reports exactly one message to the system log when
\* the result is ERROR or FATAL and none otherwise.
C34_LogWrite ==
    [][ last'.op = "log.write"
        => LET action == last'.args[1]
               result == last'.args[2]
               reason == last'.args[3]
           IN  IF action = << >> \/ result = ""
               THEN log' = log /\ last'.diag = << >>
               ELSE /\ Len(log') = Len(log) + 1
                    /\ SubSeq(log', 1, Len(log)) = log
                    /\ log'[Len(log')]
                          = [date |-> now, service_id |-> adapter.service_id,
                             action |-> action, result |-> result,
                             reason |-> reason]
                    /\ Len(last'.diag)
                          = (IF result \in {"ERROR", "FATAL"} THEN 1 ELSE 0)
                    /\ \A i \in DOMAIN last'.diag :
                          /\ last'.diag[i].service_id = adapter.service_id
                          /\ last'.diag[i].action = action
                          /\ last'.diag[i].reason = reason ]_vars

\* a FATAL entry was written and reported, after a WARNING entry
C34_Witness ==
    /\ last.op = "log.write"
    /\ last.args[2] = "FATAL"
    /\ Len(last.diag) = 1
    /\ Len(log) = 2
    /\ log[1].result = "WARNING"
    /\ log[2].result = "FATAL"
    /\ log[2].service_id = adapter.service_id

\* in every adapter operation, the messages reported to the system log
\* are those of the ERROR and FATAL entries it wrote, in order
C34_DiagnosticsFollowLog ==
    [][ last'.op # "none"
        => LET new == SubSeq(log', Len(log) + 1, Len(log'))
               crit == SelectSeq(new, LAMBDA e : e.result \in {"ERROR", "FATAL"})
           IN  /\ Len(last'.diag) = Len(crit)
               /\ \A i \in DOMAIN crit :
                     /\ last'.diag[i].action = crit[i].action
                     /\ last'.diag[i].reason = crit[i].reason ]_vars

\* the requests of a trace other than token requests
Outbound(tr) == {i \in RequestsOf(tr) : tr[i].path # TOKEN_PATH}

\* the token requests sent for the request at i: those since the request
\* before it
TokenPostsFor(tr, i) ==
    {j \in RequestsTo(tr, TOKEN_PATH) :
        /\ j < i
        /\ \A k \in Outbound(tr) : ~(j < k /\ k < i)}

\* the calls a state offers, each with the set of its outcomes
CallsOffered ==
    {get_access_token(State(Registering)), get_user_info(State(Registering))}
    \cup {register_product(State(SomeToken), a) : a \in ProductArgs}
    \cup {update_product(State(SomeToken), a) : a \in ProductArgs}
    \cup {retire_product(State(SomeToken), a) : a \in ProductArgs}
    \cup {register_subscription_plan(State(SomeToken), a) : a \in PlanArgs}
    \cup {update_subscription_plan(State(SomeToken), a) : a \in PlanArgs}
    \cup {register_subscription(State(Registering), 1, 1)}
    \cup {check_subscription(State(Registering), a) : a \in SubscriptionArgs}

C35_Terminates == \A outcomes \in CallsOffered : outcomes # {}

HookOperations ==
    {"product_service_onaccept", "subscription_plan_service_onaccept"}

\* the log actions of a registration call for a record
RegistrationActions(op, id) ==
    IF op = "product_service_onaccept"
    THEN {<<"Register Product", id>>, <<"Update product", id>>}
    ELSE {<<"Register subscription plan", id>>,
          <<"Update subscription plan", id>>}

\* the hook of a bulk import leaves the new row as inserted and does nothing
C36_Bulk ==
    [][ (last'.op \in HookOperations /\ last'.args[2])
        => /\ log' = log
           /\ last'.trace = << >>
           /\ last'.exc = "" /\ last'.error = None
           /\ product_service' \in {product_service,
                 Append(product_service,
                        new_product_link(last'.args[1], last'.args[3]))}
           /\ plan_service' \in {plan_service,
                 Append(plan_service,
                        new_plan_link(last'.args[1], last'.args[3]))} ]_vars

\* a link to a missing service or to one of an unknown API type sets the
\* error message of the response, raises nothing and registers nothing
C36_NoAdapter ==
    [][ (/\ last'.op \in HookOperations
         /\ ~last'.args[2]
         /\ (last'.args[3] # service.id \/ service.api_type \notin ADAPTERS))
        => /\ last'.exc = ""
           /\ last'.error = "Service registration failed: exception"
           /\ log' = log
           /\ last'.trace = << >> ]_vars

\* outside bulk mode the hook calls the registration of its record once,
\* on the adapter of the service of the link: a hook that returns leaves
\* one log entry of the registration or update of its record
C36_Once ==
    [][ (/\ last'.op \in HookOperations
         /\ ~last'.args[2]
         /\ last'.exc = ""
         /\ last'.args[3] = service.id
         /\ service.api_type \in ADAPTERS)
        => /\ Cardinality({i \in (Len(log) + 1)..Len(log') :
                  log'[i].action
                     \in RegistrationActions(last'.op, last'.args[1])}) = 1
           /\ \A i \in (Len(log) + 1)..Len(log') :
                 log'[i].service_id = last'.args[3] ]_vars

\* when the registration succeeds, the new link row is the one marked as
\* registered, and it is the only row added
C36_MarksRecord ==
    [][ (/\ last'.op \in HookOperations
         /\ ~last'.args[2]
         /\ last'.exc = "" /\ last'.error = None)
        => IF last'.op = "product_service_onaccept"
           THEN /\ Len(product_service') = Len(product_service) + 1
                /\ product_service'[Len(product_service')].is_registered
                /\ product_service'[Len(product_service')].product_id
                      = last'.args[1]
           ELSE /\ Len(plan_service') = Len(plan_service) + 1
                /\ plan_service'[Len(plan_service')].is_registered
                /\ plan_service'[Len(plan_service')].plan_id
                      = last'.args[1] ]_vars

\* C36: creating a product link or plan link outside bulk mode calls
\* register_product or register_subscription_plan once on the adapter of
\* the link's service and, on success, marks the new link row registered
\* without adding another row; in bulk mode nothing is registered; a
\* missing service or an unknown API type gives an error message and no
\* exception.
C36_Hooks == C36_Bulk /\ C36_NoAdapter /\ C36_Once /\ C36_MarksRecord

\* the limit of each interval unit
IntervalLimit(unit) ==
    CASE unit = "DAY" -> 365 [] unit = "WEEK" -> 52
      [] unit = "MONTH" -> 12 [] unit = "YEAR" -> 1

\* the fields for which a validation reported an error
ErrorFields(errors) == {e[1] : e \in errors}

\* C37: for every interval unit and every count from 1 on, the validation
\* of a plan form reports an error for the interval count exactly when
\* the count is above the limit of the unit (DAY 365, WEEK 52, MONTH 12,
\* YEAR 1): the limit itself is accepted, one above it is refused.
C37_IntervalLimit ==
    (last.op = "validate_plan" /\ last.args[1].interval_count >= 1)
    => ("interval_count" \in ErrorFields(last.ret)
          <=> last.args[1].interval_count
                 > IntervalLimit(last.args[1].interval_unit))

\* onvalidation itself reports the interval error exactly above the limit
C37_OnValidation ==
    last.op = "subscription_plan_onvalidation"
    => (<<"interval_count", "Interval can be at most 1 year">> \in last.ret
          <=> last.args[1].interval_count
                 > IntervalLimit(last.args[1].interval_unit))

\* the error of a fixed-term plan without cycles
NoCyclesError ==
    <<"total_cycles", "Fixed-term plan must specify number of cycles">>

\* C38: the validation of a plan form reports the total-cycles error for a
\* fixed-term plan exactly when the form gives no total cycle count: a
\* fixed-term plan with a positive count and every plan that is not
\* fixed-term pass.
C38_FixedTerm ==
    (last.op = "validate_plan" /\ field_errors(last.args[1]) = {})
    => LET form_vars == last.args[1]
       IN  /\ (form_vars.fixed /\ form_vars.total_cycles = NoValue)
                 => NoCyclesError \in last.ret
           /\ (form_vars.fixed /\ form_vars.total_cycles > 0)
                 => NoCyclesError \notin last.ret
           /\ ~form_vars.fixed => NoCyclesError \notin last.ret

\* onvalidation reports the error for every fixed-term plan and for no other
C38_EveryFixedPlan ==
    last.op \in {"validate_plan", "subscription_plan_onvalidation"}
    => (NoCyclesError \in last.ret
          <=> /\ last.args[1].fixed
              /\ last.op = "validate_plan" => field_errors(last.args[1]) = {})

\* C39: after register_product has returned success, has_product of the
\* same adapter is true for the product, and after
\* register_subscription_plan has returned success,
\* has_subscription_plan is true for the plan, whatever rows the link
\* tables held before, deleted rows included.
C39_Postcondition ==
    /\ (last.op = "register_product" /\ last.exc = "" /\ last.ret = TRUE)
          => has_product(State(SomeToken), last.args[1])
    /\ (last.op = "register_subscription_plan" /\ last.exc = ""
           /\ last.ret = TRUE)
          => has_subscription_plan(State(SomeToken), last.args[1])

\* the same for plans alone
C39_Plans ==
    (last.op = "register_subscription_plan" /\ last.exc = "" /\ last.ret = TRUE)
    => has_subscription_plan(State(SomeToken), last.args[1])

\* the same for products when no row of the pair was deleted
C39_NoDeletedRow ==
    (/\ last.op = "register_product" /\ last.exc = "" /\ last.ret = TRUE
     /\ \A i \in DOMAIN product_service :
           product_service[i].product_id = last.args[1]
              => ~product_service[i].deleted)
    => has_product(State(SomeToken), last.args[1])

\* the log entries of the last call
LastEntries == (last.log0 + 1)..Len(log)

\* a link row of the adapter's service that is registered with a reference
MarkedProduct(product_id) ==
    \E k \in DOMAIN product_service :
        /\ product_service[k].product_id = product_id
        /\ product_service[k].service_id = adapter.service_id
        /\ product_service[k].is_registered
        /\ Truthy(product_service[k].refno)
MarkedPlan(plan_id) ==
    \E k \in DOMAIN plan_service :
        /\ plan_service[k].plan_id = plan_id
        /\ plan_service[k].service_id = adapter.service_id
        /\ plan_service[k].is_registered
        /\ Truthy(plan_service[k].refno)

\* C40: when a registration of a product or plan has ended, every SUCCESS
\* entry it logged for the registration of a product or a plan has its
\* link row, marked as registered with a reference, whatever the body of
\* the success response was.
C40_SuccessHasLink ==
    last.op \in {"register_product", "register_subscription_plan"}
    => \A i \in LastEntries :
          log[i].result = "SUCCESS"
          => /\ log[i].action[1] = "Register Product"
                  => MarkedProduct(log[i].action[2])
             /\ log[i].action[1] = "Register subscription plan"
                  => MarkedPlan(log[i].action[2])

\* the same for the calls that returned and whose response held an id
C40_WithId ==
    (/\ last.op \in {"register_product", "register_subscription_plan"}
     /\ last.exc = ""
     /\ \A j \in RequestsOf(last.trace) :
           (last.trace[j].path \in {PRODUCTS_PATH, PLANS_PATH}
              /\ last.trace[j].answer.class = "OK")
           => /\ "id" \in DOMAIN last.trace[j].answer.body
              /\ last.trace[j].answer.body["id"] # "")
    => \A i \in LastEntries :
          log[i].result = "SUCCESS"
          => /\ log[i].action[1] = "Register Product"
                  => MarkedProduct(log[i].action[2])
             /\ log[i].action[1] = "Register subscription plan"
                  => MarkedPlan(log[i].action[2])

====
